---- MODULE Spec2Model ----
(***************************************************************************)
(* TapTransit gateway: the tap decision engine (state.rs), its caches      *)
(* (cache.rs), the processor (processor.rs) and the batch upload of the    *)
(* network coordinator (net.rs), as state machines.                        *)
(*                                                                         *)
(* Conventions.                                                            *)
(*  - Option<T> is a set: None is {}, Some(x) is {x}.                      *)
(*  - A &mut self method is an operator from the old value of the struct   *)
(*    to a record [self |-> new value, ret |-> returned value].            *)
(*  - Money: the code keeps fares as f32 yuan rounded to two decimals and  *)
(*    balances as u32 cents; the model keeps every fare in integer cents.  *)
(*  - Display strings are ASCII tags of the Chinese messages of the code.  *)
(*  - A `let` of the code whose value the rest of the block uses is        *)
(*    With([v \in {value} |-> rest]): the value is bound once.             *)
(***************************************************************************)
EXTENDS Integers, Sequences, FiniteSets, TLC

(* ------------------------------------------------------------------ *)
(* Bounds of the model                                                 *)
(* ------------------------------------------------------------------ *)
\* Specification Spec: last clock reading (seconds) and card-detected events
MaxClock == 2
MaxTaps == 2
\* Specification SpecTrip: the same, long enough for a tap-in, a rolled-back
\* tap-out and a second tap-out
TripMaxClock == 4
TripMaxTaps == 3
\* Specification SpecFlood: the same, long enough to fill the debounce cache
\* and tap the first card again
FloodMaxClock == 3
FloodMaxTaps == 4
\* Specification SpecDebounce: the times handed to TapDebounce::allow
MaxTime == 3
\* Specification SpecNet: last clock reading, long enough for a card to tap
\* again after the debounce window, and card-detected events
NetMaxClock == 3
NetMaxTaps == 3
\* capacity of the debounce cache (TapDebounce::new(window, max_len)); the
\* gateway boots with 128, the model scales it so that eviction happens
DebounceMaxLen == 2
\* capacity of the event buffer and of the snapshot buffer
\* (GatewaySettings.tap_cache_max, 512 by default)
TapCacheMax == 1
\* debounce window of Spec and SpecTrip in seconds, scaled from the default
\* of 2 so that a card can tap twice within MaxClock
ScaledWindowSecs == 1
\* active-trip TTL in seconds (GatewaySettings.active_trip_ttl_secs, 3600 by
\* default), scaled so that expiry happens within TripMaxClock
ScaledTripTtlSecs == 2
\* upload batch size (GatewaySettings.batch_size, 50 by default)
BatchSize == 2
\* Specification SpecPipe: last clock reading, card-detected events and
\* configuration refreshes
PipeMaxClock == 1
PipeMaxCards == 2
PipeMaxSyncs == 1
\* Specification SpecModes: the clock advances in steps of ModeTickSecs up to
\* ModeMaxClock, past the 60 s a mode lasts, and card-detected events
ModeTickSecs == 30
ModeMaxClock == 90
ModeMaxTaps == 2
FrameMaxGarbage == 3
ProtoMaxLen == 2
RouteMaxTaps == 2
WriteMaxClock == 3
WriteMaxTaps == 2
FareMaxStations == 4
LiveMaxSyncs == 1
AnswerMaxActivations == 2
SwitchMaxTaps == 2
SwitchMaxCommands == 2
\* Specification SpecAge: blacklist TTL in seconds
\* (GatewaySettings.blacklist_ttl_secs, 300 by default), scaled so that the
\* cache outlives it within AgeMaxClock, and card-detected events
BlacklistTtlSecs == 2
AgeMaxClock == 3
AgeMaxTaps == 2
\* Specification SpecIds: card-detected events
IdMaxTaps == 3

(* ------------------------------------------------------------------ *)
(* Program constants                                                   *)
(* ------------------------------------------------------------------ *)
\* u32::MAX is 4294967295; TLC's integers end at 2^31 - 1, so the unsigned
\* integers of the model saturate and wrap there
U32Max == 2147483647
DebounceWindowSecs == 2
CARD_CACHE_TTL_MS == 600000
RECHARGE_MODE_TTL_MS == 60000
REGISTER_MODE_TTL_MS == 60000
PASSENGER_MSG_TTL_OK_MS == 2000
PASSENGER_MSG_TTL_ACTION_MS == 3000
PASSENGER_MSG_TTL_ERROR_MS == 3000
DEFAULT_REGISTER_BALANCE_CENTS == 0
MAX_RECHARGE_CENTS == 20000
EMPTY_ID == 65535
U16Max == 65535

(* ------------------------------------------------------------------ *)
(* Option and integer helpers                                          *)
(* ------------------------------------------------------------------ *)
None == {}
Some(x) == {x}
IsSome(o) == o # {}
Unwrap(o) == CHOOSE x \in o : TRUE
\* Option::or
OrElse(o, p) == IF IsSome(o) THEN o ELSE p

\* u64/u32 saturating_sub
SatSub(a, b) == IF a >= b THEN a - b ELSE 0

\* u32 wrapping_add
SatAddU32_wrapping(a, b) == IF a > U32Max - b THEN b - (U32Max - a) - 1 ELSE a + b
\* u32 saturating_add
SatAddU32(a, b) == IF a > U32Max - b THEN U32Max ELSE a + b

\* u32 wrapping_add(1)
WrapInc(a) == IF a = U32Max THEN 0 ELSE a + 1

\* Vec::swap_remove(idx): the last element takes the place of the removed one
SwapRemove(v, idx) ==
    IF idx = Len(v) THEN SubSeq(v, 1, Len(v) - 1)
    ELSE [j \in 1..(Len(v) - 1) |-> IF j = idx THEN v[Len(v)] ELSE v[j]]

\* Iterator::position / find: index of the first element satisfying P, 0 if none
Position(v, P(_)) ==
    IF \E j \in 1..Len(v) : P(v[j])
    THEN CHOOSE j \in 1..Len(v) : P(v[j]) /\ \A k \in 1..(j - 1) : ~P(v[k])
    ELSE 0

\* `let v = value;` and the rest of the block: With([v \in {value} |-> rest])
\* is the rest with v bound to the value
With(f) == f[CHOOSE v \in DOMAIN f : TRUE]

(* ------------------------------------------------------------------ *)
(* cache.rs: TapDebounce                                               *)
(* ------------------------------------------------------------------ *)
TapDebounce_new(window_secs, max_len) ==
    [window_secs |-> window_secs, max_len |-> max_len, entries |-> <<>>]

TapDebounce_purge_expired(d, now) ==
    [d EXCEPT !.entries =
        SelectSeq(@, LAMBDA e : SatSub(now, e.last_seen) <= d.window_secs)]

\* min_by_key returns the first of several equally old entries
TapDebounce_drop_oldest(d) ==
    IF Len(d.entries) = 0 THEN d
    ELSE LET idx == CHOOSE j \in 1..Len(d.entries) :
                        /\ \A k \in 1..Len(d.entries) :
                              d.entries[j].last_seen <= d.entries[k].last_seen
                        /\ \A k \in 1..(j - 1) :
                              d.entries[k].last_seen > d.entries[j].last_seen
         IN [d EXCEPT !.entries = SwapRemove(@, idx)]

\* allow, were the cache to grow without evicting
TapDebounce_allow_unbounded(d, card_id, now) ==
    LET d1 == TapDebounce_purge_expired(d, now)
        idx == Position(d1.entries, LAMBDA e : e.card_id = card_id)
    IN IF idx # 0
       THEN IF SatSub(now, d1.entries[idx].last_seen) <= d1.window_secs
            THEN [self |-> d1, ret |-> FALSE]
            ELSE [self |-> [d1 EXCEPT !.entries[idx].last_seen = now], ret |-> TRUE]
       ELSE [self |-> [d1 EXCEPT !.entries =
                          Append(@, [card_id |-> card_id, last_seen |-> now])],
             ret |-> TRUE]

\* allow, were the window to end one second early (< instead of <=)
TapDebounce_allow_strict(d, card_id, now) ==
    LET d1 == TapDebounce_purge_expired(d, now)
        idx == Position(d1.entries, LAMBDA e : e.card_id = card_id)
    IN IF idx # 0
       THEN IF SatSub(now, d1.entries[idx].last_seen) < d1.window_secs
            THEN [self |-> d1, ret |-> FALSE]
            ELSE [self |-> [d1 EXCEPT !.entries[idx].last_seen = now], ret |-> TRUE]
       ELSE LET d2 == IF Len(d1.entries) >= d1.max_len
                      THEN TapDebounce_drop_oldest(d1) ELSE d1
            IN [self |-> [d2 EXCEPT !.entries =
                            Append(@, [card_id |-> card_id, last_seen |-> now])],
                ret |-> TRUE]

\* allow, were a tap rejected as too fast to restart the card's window
TapDebounce_allow_refreshing(d, card_id, now) ==
    LET d1 == TapDebounce_purge_expired(d, now)
        idx == Position(d1.entries, LAMBDA e : e.card_id = card_id)
    IN IF idx # 0
       THEN [self |-> [d1 EXCEPT !.entries[idx].last_seen = now],
             ret |-> ~(SatSub(now, d1.entries[idx].last_seen) <= d1.window_secs)]
       ELSE LET d2 == IF Len(d1.entries) >= d1.max_len
                      THEN TapDebounce_drop_oldest(d1) ELSE d1
            IN [self |-> [d2 EXCEPT !.entries =
                            Append(@, [card_id |-> card_id, last_seen |-> now])],
                ret |-> TRUE]

TapDebounce_allow(d, card_id, now) ==
    LET d1 == TapDebounce_purge_expired(d, now)
        idx == Position(d1.entries, LAMBDA e : e.card_id = card_id)
    IN IF idx # 0
       THEN IF SatSub(now, d1.entries[idx].last_seen) <= d1.window_secs
            THEN [self |-> d1, ret |-> FALSE]
            ELSE [self |-> [d1 EXCEPT !.entries[idx].last_seen = now], ret |-> TRUE]
       ELSE LET d2 == IF Len(d1.entries) >= d1.max_len
                      THEN TapDebounce_drop_oldest(d1) ELSE d1
            IN [self |-> [d2 EXCEPT !.entries =
                            Append(@, [card_id |-> card_id, last_seen |-> now])],
                ret |-> TRUE]

(* ------------------------------------------------------------------ *)
(* cache.rs: ActiveTripCache                                           *)
(* ------------------------------------------------------------------ *)
ActiveTripCache_new(ttl_secs) == [ttl_secs |-> ttl_secs, entries |-> <<>>]

ActiveTripCache_purge_expired(c, now) ==
    [c EXCEPT !.entries =
        SelectSeq(@, LAMBDA e : SatSub(now, e.last_seen) <= c.ttl_secs)]

ActiveTripCache_insert(c, event, now) ==
    LET c1 == ActiveTripCache_purge_expired(c, now)
        kept == SelectSeq(c1.entries, LAMBDA e : e.card_id # event.card_id)
    IN [c1 EXCEPT !.entries =
          Append(kept, [card_id |-> event.card_id, event |-> event, last_seen |-> now])]

\* take, were expired trips not purged first
ActiveTripCache_take_keeping_expired(c, card_id, now) ==
    LET pos == Position(c.entries, LAMBDA e : e.card_id = card_id)
    IN IF pos # 0
       THEN [self |-> [c EXCEPT !.entries = SwapRemove(@, pos)],
             ret |-> Some(c.entries[pos].event)]
       ELSE [self |-> c, ret |-> None]

ActiveTripCache_take(c, card_id, now) ==
    LET c1 == ActiveTripCache_purge_expired(c, now)
        pos == Position(c1.entries, LAMBDA e : e.card_id = card_id)
    IN IF pos # 0
       THEN [self |-> [c1 EXCEPT !.entries = SwapRemove(@, pos)],
             ret |-> Some(c1.entries[pos].event)]
       ELSE [self |-> c1, ret |-> None]

(* ------------------------------------------------------------------ *)
(* cache.rs: TapEventCache, CardStateSnapshotCache                     *)
(* ------------------------------------------------------------------ *)
TapEventCache_new(max_len) == [max_len |-> max_len, events |-> <<>>]

TapEventCache_is_full(c) == Len(c.events) >= c.max_len

\* push: ret is TRUE for Ok(()), FALSE for Err(event)
TapEventCache_push(c, event) ==
    IF TapEventCache_is_full(c) THEN [self |-> c, ret |-> FALSE]
    ELSE [self |-> [c EXCEPT !.events = Append(@, event)], ret |-> TRUE]

TapEventCache_clear(c) == [c EXCEPT !.events = <<>>]

\* The snapshot buffer's code is not part of the sources at hand: a bounded
\* FIFO that rejects on overflow, as the event buffer is.
CardStateSnapshotCache_new(max_len) == [max_len |-> max_len, snapshots |-> <<>>]

CardStateSnapshotCache_push(c, snapshot) ==
    IF Len(c.snapshots) >= c.max_len THEN [self |-> c, ret |-> FALSE]
    ELSE [self |-> [c EXCEPT !.snapshots = Append(@, snapshot)], ret |-> TRUE]

(* ------------------------------------------------------------------ *)
(* model.rs, card_data.rs: domain values                               *)
(* ------------------------------------------------------------------ *)
GatewayId == "gateway-unknown"

\* decode_uid_hex: Some(uid) for an id of 8 hex characters, None otherwise.
\* The UID bytes and their hex text determine each other: the model names a
\* UID by the hex text.
HexCardIds == {"0A0B0C01", "0A0B0C02", "0A0B0C03"}
decode_uid_hex(card_id) ==
    IF card_id \in HexCardIds THEN Some(card_id) ELSE None

CardData_new(uid) ==
    [uid |-> uid, balance_cents |-> 0, status |-> "Idle",
     entry_station_id |-> None, last_route_id |-> None, last_direction |-> None,
     last_board_station_id |-> None, last_alight_station_id |-> None]

\* CardStatus::as_u8
CardStatus_as_u8(status) ==
    CASE status = "Idle" -> 0 [] status = "InTrip" -> 1 [] status = "Blocked" -> 2

\* write_optional_u16: the u16 written for an optional id
write_optional_u16(value) == IF IsSome(value) THEN Unwrap(value) ELSE EMPTY_ID

encode_direction(value) ==
    IF value = Some("Up") THEN 0 ELSE IF value = Some("Down") THEN 1 ELSE 255

\* CardData::to_bytes, field by field (magic, version, reserved bytes and CRC
\* are fixed by the fields)
CardData_to_bytes(c) ==
    [uid |-> c.uid,
     balance |-> c.balance_cents,
     status |-> CardStatus_as_u8(c.status),
     entry_station |-> write_optional_u16(c.entry_station_id),
     last_route |-> write_optional_u16(c.last_route_id),
     last_direction |-> encode_direction(c.last_direction),
     last_board |-> write_optional_u16(c.last_board_station_id),
     last_alight |-> write_optional_u16(c.last_alight_station_id)]

TapEvent_new(record_id, card_id, route_id, station_id, station_name, tap_type, tap_time, gateway_id) ==
    [record_id |-> record_id, card_id |-> card_id, route_id |-> route_id,
     station_id |-> station_id, station_name |-> station_name,
     tap_type |-> tap_type, tap_time |-> tap_time, gateway_id |-> gateway_id]

\* format_time: epoch seconds as a decimal string
format_time(epoch_secs) == ToString(epoch_secs)

UploadRecord_from_tap_in(event) ==
    [record_id |-> event.record_id, card_id |-> event.card_id,
     route_id |-> Some(event.route_id),
     board_time |-> format_time(event.tap_time), alight_time |-> None,
     board_station_id |-> Some(event.station_id),
     board_station |-> Some(event.station_name),
     alight_station_id |-> None, alight_station |-> None,
     gateway_id |-> Some(event.gateway_id)]

UploadRecord_from_tap_out(event, board_time, board_station_id, board_station) ==
    [record_id |-> event.record_id, card_id |-> event.card_id,
     route_id |-> Some(event.route_id),
     board_time |-> format_time(board_time),
     alight_time |-> Some(format_time(event.tap_time)),
     board_station_id |-> board_station_id, board_station |-> board_station,
     alight_station_id |-> Some(event.station_id),
     alight_station |-> Some(event.station_name),
     gateway_id |-> Some(event.gateway_id)]

\* RouteConfig::standard_fare: the smallest positive base price, in cents
RouteConfig_standard_fare(cfg) ==
    LET pos == {cfg.fares[i].base_price : i \in 1..Len(cfg.fares)} \ {p \in Int : p <= 0}
    IN IF pos = {} THEN None
       ELSE Some(CHOOSE p \in pos : \A q \in pos : p <= q)

CardAck_accepted == [result |-> 1, beep_pattern |-> 1, display_code |-> 0]
CardAck_rejected == [result |-> 0, beep_pattern |-> 2, display_code |-> 1]

(* ------------------------------------------------------------------ *)
(* state.rs: GatewayState                                              *)
(* ------------------------------------------------------------------ *)
\* GatewaySettings::with_gateway_id, with the windows and capacities as
\* parameters (the code fixes them to 2 s, 3600 s and 512)
GatewaySettings(debounce_window_secs, active_trip_ttl_secs, tap_cache_max) ==
    [gateway_id |-> GatewayId,
     debounce_window_secs |-> debounce_window_secs,
     active_trip_ttl_secs |-> active_trip_ttl_secs,
     tap_cache_max |-> tap_cache_max]

RouteState_new(route_id, station_id, station_name, direction) ==
    [route_id |-> route_id, station_id |-> station_id,
     station_name |-> station_name, direction |-> direction]

\* GatewayState::bootstrap (through GatewayState::new)
GatewayState_bootstrap(settings) ==
    [settings |-> settings,
     route_state |-> RouteState_new(0, 0, "unset", "Up"),
     config_cache |-> [route |-> None, fetched_at |-> 0],
     blacklist_cache |-> [cards |-> <<>>, fetched_at |-> 0],
     tap_cache |-> TapEventCache_new(settings.tap_cache_max),
     card_state_cache |-> CardStateSnapshotCache_new(settings.tap_cache_max),
     debounce |-> TapDebounce_new(settings.debounce_window_secs, DebounceMaxLen),
     active_trips |-> ActiveTripCache_new(settings.active_trip_ttl_secs),
     wifi_connected |-> FALSE,
     backend_reachable |-> FALSE,
     last_card_id |-> "",
     last_card_data_error |-> None,
     last_tap_nonce |-> 0,
     last_message_deadline_ms |-> 0,
     last_passenger_tone |-> "Normal",
     last_passenger_message |-> "waiting",
     last_fare_base |-> None,
     last_fare |-> None,
     last_fare_label |-> "due",
     last_balance_cents |-> None,
     last_tap_type |-> None,
     card_cache |-> <<>>,
     recharge_mode |-> None,
     register_mode |-> None,
     last_write_context |-> None,
     last_written_balance_cents |-> None,
     record_seq |-> 0]

\* HashMap<String, CachedCardProfile>::get: the map is a sequence of
\* [card_id, profile] pairs with distinct card ids
card_cache_get(s, card_id) ==
    LET pos == Position(s.card_cache, LAMBDA e : e.card_id = card_id)
    IN IF pos = 0 THEN None ELSE Some(s.card_cache[pos].profile)

\* update_health: each argument is an Option<bool>
update_health(s, wifi_connected, backend_reachable) ==
    [s EXCEPT !.wifi_connected = IF IsSome(wifi_connected)
                                 THEN Unwrap(wifi_connected) ELSE @,
              !.backend_reachable = IF IsSome(backend_reachable)
                                    THEN Unwrap(backend_reachable) ELSE @]

\* variant: only the first entry of the list is compared
BlacklistCache_is_blocked_first_only(b, card_id) ==
    b.cards # <<>> /\ b.cards[1] = card_id

BlacklistCache_is_blocked(b, card_id) ==
    \E i \in 1..Len(b.cards) : b.cards[i] = card_id

set_recharge_mode(s, amount_cents, now_ms) ==
    IF amount_cents = 0 \/ amount_cents > MAX_RECHARGE_CENTS THEN s
    ELSE [s EXCEPT !.register_mode = None,
                   !.recharge_mode = Some([amount_cents |-> amount_cents,
                                           expires_at_ms |-> now_ms + RECHARGE_MODE_TTL_MS])]

clear_recharge_mode(s) == [s EXCEPT !.recharge_mode = None]

\* set_register_mode, were it to leave the recharge mode as it is
set_register_mode_keeping_recharge(s, now_ms) ==
    [s EXCEPT !.register_mode = Some([expires_at_ms |-> now_ms + REGISTER_MODE_TTL_MS])]

set_register_mode(s, now_ms) ==
    [s EXCEPT !.recharge_mode = None,
              !.register_mode = Some([expires_at_ms |-> now_ms + REGISTER_MODE_TTL_MS])]

clear_register_mode(s) == [s EXCEPT !.register_mode = None]

\* refresh_modes, were a mode to last through the millisecond it expires at
refresh_modes_late(s, now_ms) ==
    LET s1 == IF IsSome(s.recharge_mode) /\ now_ms > Unwrap(s.recharge_mode).expires_at_ms
              THEN [s EXCEPT !.recharge_mode = None] ELSE s
    IN IF IsSome(s1.register_mode) /\ now_ms > Unwrap(s1.register_mode).expires_at_ms
       THEN [s1 EXCEPT !.register_mode = None] ELSE s1

refresh_modes(s, now_ms) ==
    LET s1 == IF IsSome(s.recharge_mode) /\ now_ms >= Unwrap(s.recharge_mode).expires_at_ms
              THEN [s EXCEPT !.recharge_mode = None] ELSE s
    IN IF IsSome(s1.register_mode) /\ now_ms >= Unwrap(s1.register_mode).expires_at_ms
       THEN [s1 EXCEPT !.register_mode = None] ELSE s1

Decision(ack, event, upload_record, write_request, registration) ==
    [ack |-> ack, event |-> event, upload_record |-> upload_record,
     write_request |-> write_request, registration |-> registration]

\* reject_with_write, were it to hand back a tap event with the rejection
reject_keeping_event(s, message, write_request, now_ms) ==
    [self |-> [s EXCEPT !.last_passenger_tone = "Error",
                        !.last_passenger_message = message,
                        !.last_fare_base = None,
                        !.last_fare = None,
                        !.last_message_deadline_ms = now_ms + PASSENGER_MSG_TTL_ERROR_MS],
     ret |-> Decision(CardAck_rejected, Some([card_id |-> s.last_card_id]), None,
                      write_request, None)]

reject_with_write(s, message, write_request, now_ms) ==
    [self |-> [s EXCEPT !.last_passenger_tone = "Error",
                        !.last_passenger_message = message,
                        !.last_fare_base = None,
                        !.last_fare = None,
                        !.last_message_deadline_ms = now_ms + PASSENGER_MSG_TTL_ERROR_MS],
     ret |-> Decision(CardAck_rejected, None, None, write_request, None)]

reject_card(s, message, now_ms) == reject_with_write(s, message, None, now_ms)

\* build_write_request: remembers the context and the balance written
build_write_request(s, card_id, card_data, context) ==
    [self |-> [s EXCEPT !.last_write_context = Some(context),
                        !.last_written_balance_cents = Some(card_data.balance_cents)],
     ret |-> [card_id |-> card_id, card_data |-> CardData_to_bytes(card_data),
              block_start |-> 8, block_count |-> 2]]

fare_to_cents(s) ==
    LET fare == OrElse(s.last_fare, s.last_fare_base)
    IN IF IsSome(fare) THEN (IF Unwrap(fare) > 0 THEN Unwrap(fare) ELSE 0) ELSE 0

\* apply_balance, were it to deduct without comparing balance and fare
apply_balance_saturating(card_data, fare_cents) ==
    [card |-> [card_data EXCEPT !.balance_cents = SatSub(@, fare_cents)],
     ret |-> TRUE]

\* apply_balance: ret is the bool, card the card data after the call
apply_balance(card_data, fare_cents) ==
    IF fare_cents = 0 THEN [card |-> card_data, ret |-> TRUE]
    ELSE IF card_data.balance_cents < fare_cents THEN [card |-> card_data, ret |-> FALSE]
    ELSE [card |-> [card_data EXCEPT !.balance_cents = SatSub(@, fare_cents)],
          ret |-> TRUE]

update_last_trip(s, card_data, board_station_id, alight_station_id) ==
    [card_data EXCEPT !.last_route_id = Some(s.route_state.route_id),
                      !.last_direction = Some(s.route_state.direction),
                      !.last_board_station_id = board_station_id,
                      !.last_alight_station_id = alight_station_id]

\* the tap mode, were the engine to run every route as tap-in-out
tap_mode_ignoring_config(s) == "TapInOut"

tap_mode_of(s) ==
    IF IsSome(s.config_cache.route) THEN Unwrap(s.config_cache.route).tap_mode
    ELSE "SingleTap"

discount_label(s) ==
    IF tap_mode_of(s) = "TapInOut"
    THEN (IF s.last_tap_type = Some("TapIn") THEN "discount_start"
          ELSE IF s.last_tap_type = Some("TapOut") THEN "discount_settle"
          ELSE "discount_fare")
    ELSE "discount_fare"

\* round_currency(base * (1 - rate)), rate in percent, amounts in cents
DiscountedByRate(base, rate_pct) == (2 * base * (100 - rate_pct) + 100) \div 200

apply_card_discount(s, card_type) ==
    LET base == OrElse(s.last_fare_base, s.last_fare)
    IN IF ~IsSome(base) THEN s
       ELSE IF card_type \notin {"student", "elder", "disabled"} THEN s
       ELSE LET rate == IF card_type = "student" THEN 50 ELSE 100
            IN [s EXCEPT !.last_fare = Some(DiscountedByRate(Unwrap(base), rate)),
                         !.last_fare_label = discount_label(s)]

\* discount_rate in percent, discount_amount in cents
apply_card_discount_policy(s, card_type, discount_rate, discount_amount) ==
    LET base == OrElse(s.last_fare_base, s.last_fare)
    IN IF ~IsSome(base) THEN s
       ELSE LET b == Unwrap(base)
                has_policy == IsSome(discount_rate) \/ IsSome(discount_amount)
                by_amount == IsSome(discount_amount) /\ Unwrap(discount_amount) > 0
                by_rate == ~by_amount /\ IsSome(discount_rate) /\ Unwrap(discount_rate) >= 0
                rate == IF by_rate
                        THEN (IF Unwrap(discount_rate) > 100 THEN 100 ELSE Unwrap(discount_rate))
                        ELSE 0
                \* value = base - min(discount, base)
                value == IF by_amount
                         THEN SatSub(b, Unwrap(discount_amount))
                         ELSE DiscountedByRate(b, rate)
                zero == ~by_amount /\ (rate = 0 \/ b = 0)
            IN IF zero /\ ~has_policy THEN apply_card_discount(s, card_type)
               ELSE [s EXCEPT !.last_fare = Some(value),
                              !.last_fare_label = discount_label(s)]

cached_profile(s, card_id, now_ms) ==
    LET p == card_cache_get(s, card_id)
    IN IF ~IsSome(p) THEN None
       ELSE IF SatSub(now_ms, Unwrap(p).updated_at_ms) > CARD_CACHE_TTL_MS THEN None
       ELSE p

apply_cached_profile(s, card_id, now_ms) ==
    LET p == card_cache_get(s, card_id)
    IN IF ~IsSome(p) THEN s
       ELSE IF SatSub(now_ms, Unwrap(p).updated_at_ms) > CARD_CACHE_TTL_MS THEN s
       ELSE LET profile == Unwrap(p)
            IN IF profile.status = Some("blocked")
               THEN [s EXCEPT !.last_passenger_tone = "Error",
                              !.last_passenger_message = "card_blocked",
                              !.last_fare_base = None, !.last_fare = None]
               ELSE IF profile.status = Some("lost")
               THEN [s EXCEPT !.last_passenger_tone = "Error",
                              !.last_passenger_message = "card_lost",
                              !.last_fare_base = None, !.last_fare = None]
               ELSE IF IsSome(profile.card_type)
               THEN LET ct == Unwrap(profile.card_type)
                        s1 == IF ct = "student" THEN [s EXCEPT !.last_passenger_tone = "Student"]
                              ELSE IF ct = "elder" THEN [s EXCEPT !.last_passenger_tone = "Elder"]
                              ELSE IF ct = "disabled" THEN [s EXCEPT !.last_passenger_tone = "Disabled"]
                              ELSE s
                    IN apply_card_discount_policy(s1, ct, profile.discount_rate,
                                                  profile.discount_amount)
               ELSE s

standard_fare(s) ==
    IF IsSome(s.config_cache.route)
    THEN RouteConfig_standard_fare(Unwrap(s.config_cache.route))
    ELSE None

\* estimate_trip_fare, were it to charge the extra price for every segment
\* travelled, the included ones too
estimate_trip_fare_charging_included(s, start_station_id, end_station_id) ==
    IF ~IsSome(s.config_cache.route) THEN None
    ELSE
    LET cfg == Unwrap(s.config_cache.route)
        exact == Position(cfg.fares, LAMBDA f :
                     f.start_station = Some(start_station_id)
                     /\ f.end_station = Some(end_station_id))
        seq_of(id) ==
            LET i == Position(cfg.stations, LAMBDA st : st.id = id)
            IN IF i = 0 THEN None ELSE Some(cfg.stations[i].sequence)
        is_default(f) ==
            /\ (IF IsSome(f.start_station) THEN Unwrap(f.start_station) ELSE 0) = 0
            /\ (IF IsSome(f.end_station) THEN Unwrap(f.end_station) ELSE 0) = 0
        bi == Position(cfg.fares, is_default)
        base_price == IF bi = 0 THEN 0 ELSE cfg.fares[bi].base_price
        extra == IF bi # 0 /\ IsSome(cfg.fares[bi].extra_price)
                 THEN Unwrap(cfg.fares[bi].extra_price) ELSE 0
        included == IF bi # 0 /\ IsSome(cfg.fares[bi].segment_count)
                    THEN Unwrap(cfg.fares[bi].segment_count) ELSE 1
    IN IF start_station_id = 0 \/ end_station_id = 0
       THEN RouteConfig_standard_fare(cfg)
       ELSE IF exact # 0 /\ cfg.fares[exact].base_price > 0
       THEN Some(cfg.fares[exact].base_price)
       ELSE IF cfg.fare_type = "Uniform" THEN RouteConfig_standard_fare(cfg)
       ELSE IF ~IsSome(seq_of(start_station_id)) \/ ~IsSome(seq_of(end_station_id))
       THEN None
       ELSE LET start_seq == Unwrap(seq_of(start_station_id))
                end_seq == Unwrap(seq_of(end_station_id))
                diff == IF start_seq >= end_seq THEN start_seq - end_seq
                        ELSE end_seq - start_seq
            IN IF base_price <= 0 THEN RouteConfig_standard_fare(cfg)
               ELSE IF diff <= included \/ extra <= 0 THEN Some(base_price)
               ELSE Some(base_price + extra * diff)

\* estimate_trip_fare, in cents
estimate_trip_fare(s, start_station_id, end_station_id) ==
    IF ~IsSome(s.config_cache.route) THEN None
    ELSE
    LET cfg == Unwrap(s.config_cache.route)
        exact == Position(cfg.fares, LAMBDA f :
                     f.start_station = Some(start_station_id)
                     /\ f.end_station = Some(end_station_id))
        seq_of(id) ==
            LET i == Position(cfg.stations, LAMBDA st : st.id = id)
            IN IF i = 0 THEN None ELSE Some(cfg.stations[i].sequence)
        is_default(f) ==
            /\ (IF IsSome(f.start_station) THEN Unwrap(f.start_station) ELSE 0) = 0
            /\ (IF IsSome(f.end_station) THEN Unwrap(f.end_station) ELSE 0) = 0
        bi == Position(cfg.fares, is_default)
        base_price == IF bi = 0 THEN 0 ELSE cfg.fares[bi].base_price
        extra == IF bi # 0 /\ IsSome(cfg.fares[bi].extra_price)
                 THEN Unwrap(cfg.fares[bi].extra_price) ELSE 0
        included == IF bi # 0 /\ IsSome(cfg.fares[bi].segment_count)
                    THEN Unwrap(cfg.fares[bi].segment_count) ELSE 1
    IN IF start_station_id = 0 \/ end_station_id = 0
       THEN RouteConfig_standard_fare(cfg)
       ELSE IF exact # 0 /\ cfg.fares[exact].base_price > 0
       THEN Some(cfg.fares[exact].base_price)
       ELSE IF cfg.fare_type = "Uniform" THEN RouteConfig_standard_fare(cfg)
       ELSE IF ~IsSome(seq_of(start_station_id)) \/ ~IsSome(seq_of(end_station_id))
       THEN None
       ELSE LET start_seq == Unwrap(seq_of(start_station_id))
                end_seq == Unwrap(seq_of(end_station_id))
                diff == IF start_seq >= end_seq THEN start_seq - end_seq
                        ELSE end_seq - start_seq
            IN IF base_price <= 0 THEN RouteConfig_standard_fare(cfg)
               ELSE IF diff <= included \/ extra <= 0 THEN Some(base_price)
               ELSE Some(base_price + extra * SatSub(diff, included))

\* variant: the sequence number is read and never advanced
next_record_id_reusing(s, now) ==
    [self |-> s, ret |-> <<s.settings.gateway_id, now, s.record_seq>>]

next_record_id(s, now) ==
    [self |-> [s EXCEPT !.record_seq = WrapInc(@)],
     ret |-> <<s.settings.gateway_id, now, s.record_seq>>]

push_card_snapshot(s, card_id, card_data, source, now_ms) ==
    LET snapshot == [card_id |-> card_id,
                     balance_cents |-> card_data.balance_cents,
                     card_status |-> card_data.status,
                     entry_station_id |-> card_data.entry_station_id,
                     last_route_id |-> card_data.last_route_id,
                     last_direction |-> card_data.last_direction,
                     last_board_station_id |-> card_data.last_board_station_id,
                     last_alight_station_id |-> card_data.last_alight_station_id,
                     updated_at |-> now_ms,
                     source |-> source]
    IN [s EXCEPT !.card_state_cache =
            CardStateSnapshotCache_push(@, snapshot).self]

\* handle_register, were a registration to be uploaded as a trip
handle_register_uploading(s, card_id, uid, card_data, now_ms) ==
    IF ~IsSome(uid) THEN reject_card(s, "bad_card_id", now_ms)
    ELSE IF IsSome(card_data) THEN reject_card(s, "already_registered", now_ms)
    ELSE [self |-> [s EXCEPT !.last_passenger_message = "register_ok"],
          ret |-> Decision(CardAck_accepted, None, Some([card_id |-> card_id]), None,
                           Some([card_id |-> card_id]))]

handle_register(s, card_id, uid, card_data, now_ms) ==
    IF ~IsSome(uid) THEN reject_card(s, "bad_card_id", now_ms)
    ELSE IF IsSome(card_data) THEN reject_card(s, "already_registered", now_ms)
    ELSE LET new_data == [CardData_new(Unwrap(uid)) EXCEPT
                              !.balance_cents = DEFAULT_REGISTER_BALANCE_CENTS,
                              !.status = "Idle"]
             registration == [card_id |-> card_id,
                              balance_cents |-> DEFAULT_REGISTER_BALANCE_CENTS,
                              status |-> "active",
                              registered_at |-> now_ms,
                              gateway_id |-> s.settings.gateway_id]
         IN With([w \in {build_write_request(s, card_id, new_data, "Register")} |->
            [self |-> [push_card_snapshot(w.self, card_id, new_data, "register", now_ms)
                          EXCEPT !.last_balance_cents = None,
                                 !.last_passenger_tone = "Normal",
                                 !.last_passenger_message = "register_ok",
                                 !.last_message_deadline_ms =
                                     now_ms + PASSENGER_MSG_TTL_ACTION_MS],
             ret |-> Decision(CardAck_accepted, None, None, Some(w.ret),
                              Some(registration))]])

\* The card used when the on-card data is unusable: built from the cached
\* backend profile (state.rs 404-426 and 605-626). ret is Some(card), or None
\* with the reject message in msg.
card_from_profile(s, card_id, uid, now_ms) ==
    LET p == cached_profile(s, card_id, now_ms)
    IN IF ~IsSome(uid) THEN [ret |-> None, msg |-> "card_unregistered"]
       ELSE IF ~IsSome(p) THEN [ret |-> None, msg |-> "card_unregistered"]
       ELSE IF Unwrap(p).status = Some("blocked") THEN [ret |-> None, msg |-> "card_blocked"]
       ELSE IF Unwrap(p).status = Some("lost") THEN [ret |-> None, msg |-> "card_lost"]
       ELSE [ret |-> Some([CardData_new(Unwrap(uid)) EXCEPT !.balance_cents =
                              IF IsSome(Unwrap(p).balance_cents)
                              THEN Unwrap(Unwrap(p).balance_cents) ELSE @]),
             msg |-> ""]

handle_recharge(s, card_id, card_data, now_ms) ==
    IF ~IsSome(s.recharge_mode) THEN reject_card(s, "recharge_ended", now_ms)
    ELSE
    With([fb \in {card_from_profile(s, card_id, decode_uid_hex(card_id), now_ms)} |->
    With([got \in {IF IsSome(card_data) THEN card_data ELSE fb.ret} |->
    IF ~IsSome(got) THEN reject_card(s, fb.msg, now_ms)
    ELSE
    With([cd \in {Unwrap(got)} |->
    With([s1 \in {[s EXCEPT !.last_balance_cents = Some(cd.balance_cents)]} |->
    IF cd.status # "Idle" THEN reject_card(s1, "bad_card_status", now_ms)
    ELSE
    With([cd2 \in {[cd EXCEPT !.balance_cents =
             SatAddU32(@, Unwrap(s.recharge_mode).amount_cents)]} |->
    With([w \in {build_write_request(s1, card_id, cd2, "Recharge")} |->
    [self |-> [push_card_snapshot(w.self, card_id, cd2, "recharge", now_ms)
                  EXCEPT !.last_passenger_tone = "Normal",
                         !.last_passenger_message = "recharge_ok",
                         !.last_message_deadline_ms =
                             now_ms + PASSENGER_MSG_TTL_ACTION_MS],
     ret |-> Decision(CardAck_accepted, None, None, Some(w.ret), None)]])])])])])])

\* reject_blacklisted, were it to write to cards that are blocked already
reject_blacklisted_always_write(s, card_id, card_data, now_ms) ==
    IF IsSome(card_data)
    THEN LET data == [Unwrap(card_data) EXCEPT !.status = "Blocked",
                                               !.entry_station_id = None]
         IN With([w \in {build_write_request(s, card_id, data, "Blacklist")} |->
            reject_with_write(w.self, "card_blocked", Some(w.ret), now_ms)])
    ELSE reject_with_write(s, "card_blocked", None, now_ms)

reject_blacklisted(s, card_id, card_data, now_ms) ==
    IF IsSome(card_data) /\ Unwrap(card_data).status # "Blocked"
    THEN LET data == [Unwrap(card_data) EXCEPT !.status = "Blocked",
                                               !.entry_station_id = None]
         IN With([w \in {build_write_request(s, card_id, data, "Blacklist")} |->
            reject_with_write(
                push_card_snapshot(w.self, card_id, data, "blacklist", now_ms),
                "card_blocked", Some(w.ret), now_ms)])
    ELSE reject_with_write(s, "card_blocked", None, now_ms)

\* The bytes of a card-detected payload, as far as the decision engine reads
\* them: kind "short" (fewer than CARD_DATA_LEN bytes), a parse error of
\* from_bytes_verbose ("bad_crc", ...), or "ok" with the decoded record.
CardData_from_bytes_verbose(bytes) ==
    IF bytes.kind = "ok" THEN [ok |-> TRUE, data |-> bytes.data, err |-> ""]
    ELSE [ok |-> FALSE, data |-> CardData_new(""), err |-> bytes.kind]

\* handle_card_detected, lines 367-388: the card data the tap goes on with and
\* the diagnostic recorded for it
read_card_data(detected, uid) ==
    LET parsed == CardData_from_bytes_verbose(detected.card_data)
    IN IF detected.card_data.kind = "short"
       THEN [card_data |-> None, error |-> Some("short_card_data")]
       ELSE IF ~parsed.ok THEN [card_data |-> None, error |-> Some(parsed.err)]
       ELSE IF IsSome(uid) /\ parsed.data.uid # Unwrap(uid)
       THEN [card_data |-> None, error |-> Some("uid_mismatch")]
       ELSE [card_data |-> Some(parsed.data), error |-> None]

\* handle_card_detected, the (SingleTap, TapIn) arm
single_tap_arm(s, card_id, card_data, event, std_fare, now_ms) ==
    With([s2 \in {apply_cached_profile(
             [s EXCEPT !.last_fare_base = std_fare, !.last_fare = std_fare,
                       !.last_fare_label = "due"], card_id, now_ms)} |->
    With([ab \in {apply_balance(card_data, fare_to_cents(s2))} |->
    IF ~ab.ret
    THEN [rejected |-> TRUE, r |-> reject_card(s2, "insufficient_balance", now_ms)]
    ELSE
    With([cd \in {[update_last_trip(s2, ab.card, None, Some(event.station_id))
             EXCEPT !.status = "Idle", !.entry_station_id = None]} |->
    With([w \in {build_write_request(s2, card_id, cd, "TapIn")} |->
    [rejected |-> FALSE,
     self |-> push_card_snapshot(w.self, card_id, cd, "tap_in", now_ms),
     upload_record |-> Some(UploadRecord_from_tap_in(event)),
     write_request |-> Some(w.ret)]])])])])

\* handle_card_detected, the (TapInOut, TapIn) arm
tap_in_arm(s, card_id, card_data, event, std_fare, now, now_ms) ==
    With([s1 \in {[s EXCEPT !.active_trips = ActiveTripCache_insert(@, event, now)]} |->
    With([fare \in {OrElse(estimate_trip_fare(s1, event.station_id, event.station_id), std_fare)} |->
    With([s3 \in {apply_cached_profile(
             [s1 EXCEPT !.last_fare_base = fare, !.last_fare = fare,
                        !.last_fare_label = "start_fare"], card_id, now_ms)} |->
    With([cd \in {[card_data EXCEPT !.status = "InTrip",
                           !.entry_station_id = Some(event.station_id)]} |->
    With([w \in {build_write_request(s3, card_id, cd, "TapIn")} |->
    [rejected |-> FALSE,
     self |-> push_card_snapshot(w.self, card_id, cd, "tap_in", now_ms),
     upload_record |-> Some(UploadRecord_from_tap_in(event)),
     write_request |-> Some(w.ret)]])])])])])

\* the rejected tap-out, were the trip it took out not put back
rollback_trip_dropped(s, removed_trip, now, now_ms) ==
    reject_card(s, "insufficient_balance", now_ms)

\* handle_card_detected, lines 521-526: the rejected tap-out puts the trip back
rollback_trip(s, removed_trip, now, now_ms) ==
    LET s1 == IF IsSome(removed_trip)
              THEN [s EXCEPT !.active_trips =
                        ActiveTripCache_insert(@, Unwrap(removed_trip), now)]
              ELSE s
    IN reject_card(s1, "insufficient_balance", now_ms)

\* handle_card_detected, the (TapInOut, TapOut) arm
tap_out_arm(s, card_id, card_data, event, board_event, removed_trip, std_fare, now, now_ms) ==
    LET upload_record ==
            IF IsSome(board_event)
            THEN Some(UploadRecord_from_tap_out(event, Unwrap(board_event).tap_time,
                          Some(Unwrap(board_event).station_id),
                          Some(Unwrap(board_event).station_name)))
            ELSE None
        board_station == IF IsSome(board_event)
                         THEN Some(Unwrap(board_event).station_id) ELSE None
    IN
    With([fare \in {IF IsSome(board_event)
         THEN OrElse(estimate_trip_fare(s, Unwrap(board_event).station_id,
                                        event.station_id), std_fare)
         ELSE std_fare} |->
    With([s2 \in {apply_cached_profile(
             [s EXCEPT !.last_fare_base = fare, !.last_fare = fare,
                       !.last_fare_label = "settle_fare"], card_id, now_ms)} |->
    With([ab \in {apply_balance(card_data, fare_to_cents(s2))} |->
    IF ~ab.ret
    THEN [rejected |-> TRUE, r |-> rollback_trip(s2, removed_trip, now, now_ms)]
    ELSE
    With([cd \in {[update_last_trip(s2, ab.card, board_station, Some(event.station_id))
             EXCEPT !.status = "Idle", !.entry_station_id = None]} |->
    With([w \in {build_write_request(s2, card_id, cd, "TapOut")} |->
    [rejected |-> FALSE,
     self |-> push_card_snapshot(w.self, card_id, cd, "tap_out", now_ms),
     upload_record |-> upload_record,
     write_request |-> Some(w.ret)]])])])])])

\* handle_card_detected, lines 402-551: the normal tap path
normal_tap(s, detected, uid, card_data, now, now_ms) ==
    With([card_id \in {detected.card_id} |->
    With([fb \in {card_from_profile(s, card_id, uid, now_ms)} |->
    With([got \in {IF IsSome(card_data) THEN card_data ELSE fb.ret} |->
    IF ~IsSome(got) THEN reject_card(s, fb.msg, now_ms)
    ELSE IF Unwrap(got).status = "Blocked" THEN reject_card(s, "card_blocked", now_ms)
    ELSE
    With([cd \in {Unwrap(got)} |->
    With([tap_mode \in {tap_mode_of(s)} |->
    With([tk \in {IF tap_mode = "TapInOut"
         THEN ActiveTripCache_take(s.active_trips, card_id, now)
         ELSE [self |-> s.active_trips, ret |-> None]} |->
    With([prev \in {tk.ret} |->
    With([s1 \in {[s EXCEPT !.active_trips = tk.self]} |->
    With([tap_type \in {IF IsSome(prev) THEN "TapOut" ELSE "TapIn"} |->
    With([rid \in {next_record_id(s1, now)} |->
    With([event \in {TapEvent_new(rid.ret, card_id, s1.route_state.route_id,
                      s1.route_state.station_id, s1.route_state.station_name,
                      tap_type, detected.tap_time, s1.settings.gateway_id)} |->
    With([s2 \in {[rid.self EXCEPT !.last_passenger_tone = "Normal"]} |->
    With([std_fare \in {standard_fare(s2)} |->
    With([arm \in {IF tap_mode = "SingleTap"
         THEN single_tap_arm(s2, card_id, cd, event, std_fare, now_ms)
         ELSE IF tap_type = "TapIn"
         THEN tap_in_arm(s2, card_id, cd, event, std_fare, now, now_ms)
         ELSE tap_out_arm(s2, card_id, cd, event, prev, prev, std_fare, now, now_ms)} |->
    IF arm.rejected THEN arm.r
    ELSE [self |-> [arm.self EXCEPT
                      !.last_tap_type = Some(tap_type),
                      !.last_passenger_message =
                          IF arm.self.last_passenger_tone # "Error" THEN "tap_ok" ELSE @,
                      !.last_message_deadline_ms = now_ms + PASSENGER_MSG_TTL_OK_MS],
          ret |-> Decision(CardAck_accepted, Some(event), arm.upload_record,
                           arm.write_request, None)]])])])])])])])])])])])])])])

handle_card_detected(s, detected, now, now_ms) ==
    With([card_id \in {detected.card_id} |->
    With([s1 \in {[refresh_modes(s, now_ms) EXCEPT
             !.last_tap_nonce = WrapInc(@),
             !.last_card_id = card_id,
             !.last_card_data_error = None]} |->
    With([al \in {TapDebounce_allow(s1.debounce, card_id, now)} |->
    With([s2 \in {[s1 EXCEPT !.debounce = al.self]} |->
    IF ~al.ret THEN reject_card(s2, "tap_too_fast", now_ms)
    ELSE
    With([uid \in {decode_uid_hex(card_id)} |->
    With([rd \in {read_card_data(detected, uid)} |->
    With([s3 \in {[s2 EXCEPT !.last_card_data_error = rd.error,
                    !.last_balance_cents =
                        IF IsSome(rd.card_data)
                        THEN Some(Unwrap(rd.card_data).balance_cents) ELSE None]} |->
    IF BlacklistCache_is_blocked(s3.blacklist_cache, card_id)
    THEN reject_blacklisted(s3, card_id, rd.card_data, now_ms)
    ELSE IF IsSome(s3.register_mode)
    THEN handle_register(s3, card_id, uid, rd.card_data, now_ms)
    ELSE IF IsSome(s3.recharge_mode)
    THEN handle_recharge(s3, card_id, rd.card_data, now_ms)
    ELSE normal_tap(s3, detected, uid, rd.card_data, now, now_ms)])])])])])])])

\* handle_write_result, were a success to drop the saved balance without
\* showing it
handle_write_result_keeping_display(s, result, now_ms) ==
    LET context == s.last_write_context
        s1 == [s EXCEPT !.last_write_context = None]
    IN IF result = 1
       THEN LET s2 == [s1 EXCEPT !.last_written_balance_cents = None]
            IN IF context = Some("Recharge") THEN [s2 EXCEPT !.recharge_mode = None]
               ELSE s2
       ELSE [s1 EXCEPT !.last_written_balance_cents = None,
                       !.last_passenger_tone = "Error",
                       !.last_passenger_message =
                           IF context = Some("Recharge") THEN "recharge_write_failed"
                           ELSE IF context = Some("Register") THEN "register_write_failed"
                           ELSE IF context = Some("Blacklist") THEN "blacklist_write_failed"
                           ELSE "write_failed",
                       !.last_message_deadline_ms = now_ms + PASSENGER_MSG_TTL_ERROR_MS]

\* handle_write_result, were a failure to leave the saved balance in place
handle_write_result_keeping_saved(s, result, now_ms) ==
    LET context == s.last_write_context
        s1 == [s EXCEPT !.last_write_context = None]
    IN IF result = 1
       THEN LET s2 == IF IsSome(s1.last_written_balance_cents)
                      THEN [s1 EXCEPT !.last_balance_cents = s1.last_written_balance_cents,
                                      !.last_written_balance_cents = None]
                      ELSE s1
            IN IF context = Some("Recharge") THEN [s2 EXCEPT !.recharge_mode = None]
               ELSE s2
       ELSE [s1 EXCEPT !.last_passenger_tone = "Error",
                       !.last_passenger_message =
                           IF context = Some("Recharge") THEN "recharge_write_failed"
                           ELSE IF context = Some("Register") THEN "register_write_failed"
                           ELSE IF context = Some("Blacklist") THEN "blacklist_write_failed"
                           ELSE "write_failed",
                       !.last_message_deadline_ms = now_ms + PASSENGER_MSG_TTL_ERROR_MS]

handle_write_result(s, result, now_ms) ==
    LET context == s.last_write_context
        s1 == [s EXCEPT !.last_write_context = None]
    IN IF result = 1
       THEN LET s2 == IF IsSome(s1.last_written_balance_cents)
                      THEN [s1 EXCEPT !.last_balance_cents = s1.last_written_balance_cents,
                                      !.last_written_balance_cents = None]
                      ELSE s1
            IN IF context = Some("Recharge") THEN [s2 EXCEPT !.recharge_mode = None]
               ELSE s2
       ELSE [s1 EXCEPT !.last_written_balance_cents = None,
                       !.last_passenger_tone = "Error",
                       !.last_passenger_message =
                           IF context = Some("Recharge") THEN "recharge_write_failed"
                           ELSE IF context = Some("Register") THEN "register_write_failed"
                           ELSE IF context = Some("Blacklist") THEN "blacklist_write_failed"
                           ELSE "write_failed",
                       !.last_message_deadline_ms = now_ms + PASSENGER_MSG_TTL_ERROR_MS]

\* processor.rs: GatewayProcessor::handle_card, under the state lock
handle_card(s, detected, now, now_ms) ==
    With([r \in {handle_card_detected(s, detected, now, now_ms)} |->
    IF IsSome(r.ret.upload_record) /\ IsSome(r.ret.event)
    THEN [self |-> [r.self EXCEPT !.tap_cache =
                       TapEventCache_push(@, Unwrap(r.ret.event)).self],
          ret |-> r.ret]
    ELSE r])

update_route_config(s, config, now) ==
    LET station_ids == {config.stations[i].id : i \in 1..Len(config.stations)}
        s1 == [s EXCEPT !.config_cache = [route |-> Some(config), fetched_at |-> now]]
        \* min_by_key: the first station with the smallest sequence number
        mi == CHOOSE j \in 1..Len(config.stations) :
                  /\ \A k \in 1..Len(config.stations) :
                        config.stations[j].sequence <= config.stations[k].sequence
                  /\ \A k \in 1..(j - 1) :
                        config.stations[k].sequence > config.stations[j].sequence
        fi == Position(config.stations, LAMBDA st : st.id = s.route_state.station_id)
    IN IF s.route_state.route_id # config.route_id
          \/ s.route_state.station_id \notin station_ids
       THEN IF Len(config.stations) > 0
            THEN [s1 EXCEPT !.route_state.route_id = config.route_id,
                            !.route_state.station_id = config.stations[mi].id,
                            !.route_state.station_name = config.stations[mi].name]
            ELSE [s1 EXCEPT !.route_state.route_id = config.route_id,
                            !.route_state.station_id = 0,
                            !.route_state.station_name = "unset"]
       ELSE [s1 EXCEPT !.route_state.station_name = config.stations[fi].name]

update_blacklist(s, cards, now) ==
    [s EXCEPT !.blacklist_cache = [cards |-> cards, fetched_at |-> now]]

\* Vec::sort_by_key(sequence) is stable: insertion sort of the stations
RECURSIVE SortBySequence(_)
SortBySequence(v) ==
    IF Len(v) <= 1 THEN v
    ELSE LET rest == SortBySequence(SubSeq(v, 1, Len(v) - 1))
             x == v[Len(v)]
             k == Cardinality({i \in 1..Len(rest) : rest[i].sequence <= x.sequence})
         IN SubSeq(rest, 1, k) \o <<x>> \o SubSeq(rest, k + 1, Len(rest))

\* step_station: only the state, the bool returned is not used by the callers
step_station(s, forward) ==
    IF ~IsSome(s.config_cache.route) THEN s
    ELSE LET stations == SortBySequence(Unwrap(s.config_cache.route).stations)
             pos == Position(stations, LAMBDA st : st.id = s.route_state.station_id)
             \* pos is 1-based here, 0 when absent
             nxt == IF forward THEN pos + 1 ELSE IF pos = 1 THEN 1 ELSE pos - 1
         IN IF pos = 0 \/ nxt > Len(stations) THEN s
            ELSE [s EXCEPT !.route_state.station_id = stations[nxt].id,
                           !.route_state.station_name = stations[nxt].name]

update_passenger_tone(s, tone) ==
    IF tone # "Error" THEN [s EXCEPT !.last_passenger_tone = tone] ELSE s

\* update_card_cache: at 256 profiles the oldest one makes room for a new card
update_card_cache(s, card_id, profile, now_ms) ==
    LET has == \E i \in 1..Len(s.card_cache) : s.card_cache[i].card_id = card_id
        oldest == CHOOSE j \in 1..Len(s.card_cache) :
                     \A k \in 1..Len(s.card_cache) :
                        s.card_cache[j].profile.updated_at_ms
                            <= s.card_cache[k].profile.updated_at_ms
        c1 == IF Len(s.card_cache) >= 256 /\ ~has
              THEN SwapRemove(s.card_cache, oldest) ELSE s.card_cache
        entry == [card_id |-> card_id,
                  profile |-> [profile EXCEPT !.updated_at_ms = now_ms]]
        pos == Position(c1, LAMBDA e : e.card_id = card_id)
    IN [s EXCEPT !.card_cache =
            IF pos # 0 THEN [c1 EXCEPT ![pos] = entry] ELSE Append(c1, entry)]

\* net.rs: tone_from_profile
tone_from_profile(profile) ==
    IF profile.status = Some("blocked") \/ profile.status = Some("lost")
    THEN Some("Error")
    ELSE IF profile.card_type = Some("student") THEN Some("Student")
    ELSE IF profile.card_type = Some("elder") THEN Some("Elder")
    ELSE IF profile.card_type = Some("disabled") THEN Some("Disabled")
    ELSE IF profile.card_type = Some("normal") THEN Some("Normal")
    ELSE None

\* net.rs: apply_card_profile, under the state lock
apply_card_profile(s, card_id, profile, now_ms) ==
    LET tone == tone_from_profile(profile)
        s1 == update_card_cache(s, card_id, profile, now_ms)
    IN IF ~IsSome(tone) THEN s
       ELSE IF s1.last_card_id # card_id THEN s1
       ELSE IF tone = Some("Error")
       THEN [s1 EXCEPT !.last_passenger_tone = "Error",
                       !.last_passenger_message =
                           IF profile.status = Some("blocked") THEN "card_blocked"
                           ELSE IF profile.status = Some("lost") THEN "card_lost"
                           ELSE @]
       ELSE LET s2 == update_passenger_tone(s1, Unwrap(tone))
            IN IF IsSome(profile.card_type)
               THEN apply_card_discount_policy(s2, Unwrap(profile.card_type),
                                               profile.discount_rate,
                                               profile.discount_amount)
               ELSE s2

(* ------------------------------------------------------------------ *)
(* Inputs of the model                                                 *)
(* ------------------------------------------------------------------ *)
\* "BAD" stands for a card id that is not 8 hex characters
CardIds == {"0A0B0C01", "0A0B0C02", "BAD"}

Stations3 == << [id |-> 1, name |-> "S1", sequence |-> 1],
                [id |-> 2, name |-> "S2", sequence |-> 2],
                [id |-> 3, name |-> "S3", sequence |-> 3] >>

DefaultFareRule == [base_price |-> 200, segment_count |-> Some(1),
                    extra_price |-> Some(100),
                    start_station |-> None, end_station |-> None]

\* uniform fare 2.00, single tap
ConfigSingle == [route_id |-> 101, fare_type |-> "Uniform", tap_mode |-> "SingleTap",
                 stations |-> Stations3, fares |-> <<DefaultFareRule>>]
\* distance fare: base 2.00, 1.00 per extra segment, one segment included
ConfigInOut == [route_id |-> 101, fare_type |-> "Distance", tap_mode |-> "TapInOut",
                stations |-> Stations3, fares |-> <<DefaultFareRule>>]
Configs == {ConfigSingle, ConfigInOut}

Profile(card_type, status, balance) ==
    [card_type |-> card_type, status |-> status, discount_rate |-> None,
     discount_amount |-> None, balance_cents |-> balance, updated_at_ms |-> 0]
Profiles == {Profile(Some("student"), Some("active"), Some(1000)),
             Profile(Some("normal"), Some("blocked"), Some(1000))}

Balances == {150, 1000}

CardRecord(uid, balance, status) ==
    [CardData_new(uid) EXCEPT !.balance_cents = balance, !.status = status,
                              !.entry_station_id =
                                  IF status = "InTrip" THEN Some(1) ELSE None]

\* what a reader may send as the card data of card_id: every kind of record
\* for the first card, a short payload and a good record for the second, a
\* corrupt payload and a foreign record for an id that is not a UID
CardBytes(card_id) ==
    IF card_id = "0A0B0C01"
    THEN {[kind |-> "short"],
          [kind |-> "ok", data |-> CardRecord("FFFFFFFF", 1000, "Idle")],
          [kind |-> "ok", data |-> CardRecord(card_id, 1000, "InTrip")],
          [kind |-> "ok", data |-> CardRecord(card_id, 1000, "Blocked")]}
         \cup {[kind |-> "ok", data |-> CardRecord(card_id, b, "Idle")] : b \in Balances}
    ELSE IF card_id \in HexCardIds
    THEN {[kind |-> "short"],
          [kind |-> "ok", data |-> CardRecord(card_id, 1000, "Idle")]}
    ELSE {[kind |-> "bad_crc"],
          [kind |-> "ok", data |-> CardRecord("FFFFFFFF", 1000, "Idle")]}

Blacklists == {<<>>, <<"0A0B0C01">>}


\* the card a passenger presents in SpecTrip, SpecFlood and SpecNet
IdleCard(card_id, balance) ==
    [card_id |-> card_id,
     card_data |-> [kind |-> "ok", data |-> CardRecord(card_id, balance, "Idle")]]

\* what the backend answers to the batch POST: an HTTP status, or no answer
HttpOutcomes ==
    {[kind |-> "status", status |-> st] : st \in {199, 200, 299, 300, 500}}
        \cup {[kind |-> "transport_error"]}

(* ------------------------------------------------------------------ *)
(* net.rs: the batch upload                                            *)
(* ------------------------------------------------------------------ *)
\* update_backend_status
update_backend_status(s, reachable) == update_health(s, None, Some(reachable))

\* flush_batch, were a batch the backend refused given up
flush_batch_dropping_refused(s, buf, outcome) ==
    IF buf = <<>> THEN [state |-> s, buffer |-> buf, ret |-> "Ok"]
    ELSE IF outcome.kind = "transport_error"
    THEN [state |-> s, buffer |-> buf, ret |-> "Err"]
    ELSE IF ~(200 <= outcome.status /\ outcome.status < 300)
    THEN [state |-> update_backend_status(s, FALSE), buffer |-> <<>>,
          ret |-> "HttpStatus"]
    ELSE [state |-> update_backend_status(
                        [s EXCEPT !.tap_cache = TapEventCache_clear(@)], TRUE),
          buffer |-> <<>>, ret |-> "Ok"]

\* flush_batch, were the buffer cleared once the request is on its way
flush_batch_clear_first(s, buf, outcome) ==
    IF buf = <<>> THEN [state |-> s, buffer |-> buf, ret |-> "Ok"]
    ELSE IF outcome.kind = "transport_error"
    THEN [state |-> s, buffer |-> buf, ret |-> "Err"]
    ELSE [state |-> s, buffer |-> <<>>, ret |-> "Ok"]

\* flush_batch: state and buffer after the call, ret the Result. A transport
\* error leaves through `?` before the status is read.
flush_batch(s, buf, outcome) ==
    IF buf = <<>> THEN [state |-> s, buffer |-> buf, ret |-> "Ok"]
    ELSE IF outcome.kind = "transport_error"
    THEN [state |-> s, buffer |-> buf, ret |-> "Err"]
    ELSE IF ~(200 <= outcome.status /\ outcome.status < 300)
    THEN [state |-> update_backend_status(s, FALSE), buffer |-> buf,
          ret |-> "HttpStatus"]
    ELSE [state |-> update_backend_status(
                        [s EXCEPT !.tap_cache = TapEventCache_clear(@)], TRUE),
          buffer |-> <<>>, ret |-> "Ok"]

(* ------------------------------------------------------------------ *)
(* proto.rs: the serial frame and its byte form                        *)
(* ------------------------------------------------------------------ *)
FRAME_HEADER == <<170, 85>>
FRAME_VERSION == 1
MSG_CARD_DETECTED == 1
MSG_CARD_ACK == 2

\* `as u16`, u16::to_le_bytes, u16::from_le_bytes
AsU16(n) == n % (2 ^ 16)
u16_to_le_bytes(v) == <<v % 256, v \div 256>>
u16_from_le_bytes(b0, b1) == b0 + 256 * b1

Frame(msg_type, flags, payload) ==
    [msg_type |-> msg_type, flags |-> flags, payload |-> payload]

\* Result<Frame, FrameError>; "Panic" is the slice-range panic of line 68
Frame_Ok(frame) == [ok |-> TRUE, frame |-> frame, err |-> ""]
Frame_Err(err) == [ok |-> FALSE, frame |-> Frame(0, 0, <<>>), err |-> err]

\* checksum16: the wrapping sum of data[lo..hi]; wrapping_add is associative,
\* the sum is taken by halves
RECURSIVE wrapping_sum(_, _, _)
wrapping_sum(data, lo, hi) ==
    IF lo > hi THEN 0
    ELSE IF lo = hi THEN data[lo]
    ELSE AsU16(wrapping_sum(data, lo, (lo + hi) \div 2)
               + wrapping_sum(data, (lo + hi) \div 2 + 1, hi))

checksum16(data) == wrapping_sum(data, 1, Len(data))

encode_frame(frame) ==
    With([length \in {AsU16(1 + 1 + Len(frame.payload))} |->
    With([out \in {FRAME_HEADER \o <<FRAME_VERSION>> \o u16_to_le_bytes(length)
                   \o <<frame.msg_type, frame.flags>> \o frame.payload} |->
        out \o u16_to_le_bytes(checksum16(SubSeq(out, 3, Len(out))))])])

\* decode_frame; data[i] of the code is data[i + 1] here
decode_frame(data) ==
    IF Len(data) < 2 + 1 + 2 + 1 + 1 + 2 THEN Frame_Err("TooShort")
    ELSE IF SubSeq(data, 1, 2) # FRAME_HEADER THEN Frame_Err("BadHeader")
    ELSE IF data[3] # FRAME_VERSION THEN Frame_Err("BadVersion")
    ELSE
    With([expected \in {2 + 1 + 2 + u16_from_le_bytes(data[4], data[5]) + 2} |->
        IF Len(data) < expected THEN Frame_Err("BadLength")
        ELSE IF u16_from_le_bytes(data[expected - 1], data[expected])
                # checksum16(SubSeq(data, 3, expected - 2))
        THEN Frame_Err("BadChecksum")
        ELSE IF 7 > expected - 2 THEN Frame_Err("Panic")
        ELSE Frame_Ok(Frame(data[6], data[7], SubSeq(data, 8, expected - 2)))])

(* ------------------------------------------------------------------ *)
(* serial_io.rs: FrameReader                                           *)
(* ------------------------------------------------------------------ *)
FrameReader_new == [buffer |-> <<>>, expected_len |-> None]

FrameReader_reset(self) == [self EXCEPT !.buffer = <<>>, !.expected_len = None]

\* the expected_len after the fifth byte
FrameReader_expected(self, buffer) ==
    IF Len(buffer) = 5
    THEN Some(2 + 1 + 2 + u16_from_le_bytes(buffer[4], buffer[5]) + 2)
    ELSE self.expected_len

FrameReader_push(self, byte) ==
    With([buffer \in {Append(self.buffer, byte)} |->
    IF Len(buffer) = 1 /\ buffer[1] # FRAME_HEADER[1]
    THEN [self |-> FrameReader_reset(self), ret |-> None]
    ELSE IF Len(buffer) = 2 /\ buffer[2] # FRAME_HEADER[2]
    THEN [self |-> FrameReader_reset(self), ret |-> None]
    ELSE IF Len(buffer) = 3 /\ buffer[3] # FRAME_VERSION
    THEN [self |-> FrameReader_reset(self), ret |-> Some(Frame_Err("BadVersion"))]
    ELSE
    With([expected_len \in {FrameReader_expected(self, buffer)} |->
        IF IsSome(expected_len) /\ Len(buffer) = Unwrap(expected_len)
        THEN [self |-> FrameReader_reset(self), ret |-> Some(decode_frame(buffer))]
        ELSE IF IsSome(expected_len) /\ Len(buffer) > Unwrap(expected_len)
        THEN [self |-> FrameReader_reset(self), ret |-> Some(Frame_Err("BadLength"))]
        ELSE [self |-> [buffer |-> buffer, expected_len |-> expected_len],
              ret |-> None]])])

\* push_bytes_to_channel: the bytes pushed one after the other; rets is what
\* each push returned
RECURSIVE push_bytes(_, _, _)
push_bytes(self, bytes, rets) ==
    IF bytes = <<>> THEN [self |-> self, rets |-> rets]
    ELSE With([r \in {FrameReader_push(self, Head(bytes))} |->
            push_bytes(r.self, Tail(bytes), Append(rets, r.ret))])

(* ------------------------------------------------------------------ *)
(* State of the specifications                                         *)
(* ------------------------------------------------------------------ *)
VARIABLES
    state,      \* the GatewayState behind the mutex
    clock,      \* the system clock, in seconds
    last,       \* the last call: its input and what it returned
    history,    \* the taps handled so far, in order
    debounce,   \* a TapDebounce on its own (SpecDebounce)
    upload_rx,  \* the upload channel from the processor to the network loop
    buffer,     \* the network loop's upload buffer
    card_rx,    \* the channel of card-detected events to the processor
    cmd_rx,     \* the serial command channel: every command sent on it so far
    net_cmd_rx, \* the channel of commands to the network loop
    proc,       \* the processor loop: where it stands and its locals
    net,        \* the network loop: where it stands in sync_config
    lock,       \* the holder of the Mutex around the GatewayState
    reader      \* a FrameReader (SpecFrame)

vars == <<state, clock, last, history, debounce, upload_rx, buffer, card_rx, cmd_rx,
          net_cmd_rx, proc, net, lock, reader>>

NowMs == clock * 1000

NoCall == [op |-> "none"]

\* the passenger message after a call, with the Decision the call returned
TapOutcome(detected, passed, r) ==
    [card_id |-> detected.card_id, now |-> clock, passed |-> passed,
     decision |-> r.ret, message |-> r.self.last_passenger_message]

Boot(settings) ==
    /\ clock = 0
    /\ last = NoCall
    /\ history = <<>>
    /\ debounce = TapDebounce_new(settings.debounce_window_secs, DebounceMaxLen)
    /\ upload_rx = <<>>
    /\ buffer = <<>>
    /\ card_rx = <<>>
    /\ cmd_rx = <<>>
    /\ net_cmd_rx = <<>>
    /\ proc = [pc |-> "recv"]
    /\ net = [pc |-> "idle", syncs |-> 0]
    /\ lock = "free"
    /\ reader = FrameReader_new

(* ------------------------------------------------------------------ *)
(* Spec: the decision engine under every setting                       *)
(* ------------------------------------------------------------------ *)
ScaledSettings == GatewaySettings(ScaledWindowSecs, ScaledTripTtlSecs, TapCacheMax)

Init ==
    /\ state = GatewayState_bootstrap(ScaledSettings)
    /\ Boot(ScaledSettings)

Tick ==
    /\ clock < MaxClock
    /\ clock' = clock + 1
    /\ UNCHANGED <<state, last, history, debounce, upload_rx, buffer, card_rx, cmd_rx, net_cmd_rx, proc, net, lock, reader>>

\* processor.rs: one card-detected event handled under the state lock
Tap ==
    /\ state.last_tap_nonce < MaxTaps
    /\ \E card_id \in CardIds : \E bytes \in CardBytes(card_id) :
          LET detected == [card_id |-> card_id, tap_time |-> clock, card_data |-> bytes]
          IN \E r \in {handle_card(state, detected, clock, NowMs)} :
             /\ state' = r.self
             /\ last' = [op |-> "tap", detected |-> detected, now |-> clock,
                         decision |-> r.ret]
    /\ UNCHANGED <<clock, history, debounce, upload_rx, buffer, card_rx, cmd_rx, net_cmd_rx, proc, net, lock, reader>>

\* The backend and the operator set the gateway up before the first card:
\* the model explores every setting, and no change of setting between taps.
Setup(s) ==
    /\ state.last_tap_nonce = 0 /\ clock = 0
    /\ s # state
    /\ state' = s
    /\ UNCHANGED <<clock, last, history, debounce, upload_rx, buffer, card_rx, cmd_rx, net_cmd_rx, proc, net, lock, reader>>

SyncConfig == \E config \in Configs : Setup(update_route_config(state, config, clock))
SyncBlacklist == \E cards \in Blacklists : Setup(update_blacklist(state, cards, clock))
LookupCard == \E profile \in Profiles :
                  Setup(apply_card_profile(state, "0A0B0C01", profile, NowMs))
SetRecharge == Setup(set_recharge_mode(state, 500, NowMs))
SetRegister == Setup(set_register_mode(state, NowMs))
ClearModes == Setup(clear_register_mode(clear_recharge_mode(state)))

\* pipeline.rs: the write-result loop
WriteResult ==
    /\ IsSome(state.last_write_context)
    /\ \E result \in {0, 1} : state' = handle_write_result(state, result, NowMs)
    /\ UNCHANGED <<clock, last, history, debounce, upload_rx, buffer, card_rx, cmd_rx, net_cmd_rx, proc, net, lock, reader>>

Next ==
    \/ Tick
    \/ Tap
    \/ SyncConfig
    \/ SyncBlacklist
    \/ LookupCard
    \/ SetRecharge
    \/ SetRegister
    \/ ClearModes
    \/ WriteResult

Spec == Init /\ [][Next]_vars

(* ------------------------------------------------------------------ *)
(* SpecTrip: trips on a route in tap-in-out mode                       *)
(* ------------------------------------------------------------------ *)
TripInit ==
    /\ state = update_route_config(GatewayState_bootstrap(ScaledSettings), ConfigInOut, 0)
    /\ Boot(ScaledSettings)

TripTick ==
    /\ clock < TripMaxClock
    /\ clock' = clock + 1
    /\ UNCHANGED <<state, last, history, debounce, upload_rx, buffer, card_rx, cmd_rx, net_cmd_rx, proc, net, lock, reader>>

TripCards == {IdleCard("0A0B0C01", b) : b \in Balances} \cup {IdleCard("0A0B0C02", 1000)}

TripTap ==
    /\ state.last_tap_nonce < TripMaxTaps
    /\ \E card \in TripCards :
          LET detected == [card_id |-> card.card_id, tap_time |-> clock,
                           card_data |-> card.card_data]
              passed == TapDebounce_allow(state.debounce, card.card_id, clock).ret
          IN \E r \in {handle_card(state, detected, clock, NowMs)} :
             /\ state' = r.self
             /\ last' = [op |-> "tap", detected |-> detected, now |-> clock,
                         decision |-> r.ret]
             /\ history' = Append(history, TapOutcome(detected, passed, r))
    /\ UNCHANGED <<clock, debounce, upload_rx, buffer, card_rx, cmd_rx, net_cmd_rx, proc, net, lock, reader>>

\* web_server.rs: the driver moves the bus to the next or the previous station
TripStepStation ==
    /\ \E forward \in BOOLEAN :
          /\ step_station(state, forward) # state
          /\ state' = step_station(state, forward)
    /\ UNCHANGED <<clock, last, history, debounce, upload_rx, buffer, card_rx, cmd_rx, net_cmd_rx, proc, net, lock, reader>>

TripNext == TripTick \/ TripTap \/ TripStepStation

SpecTrip == TripInit /\ [][TripNext]_vars

(* ------------------------------------------------------------------ *)
(* SpecFlood: more cards than the debounce cache holds                 *)
(* ------------------------------------------------------------------ *)
FloodSettings == GatewaySettings(DebounceWindowSecs, ScaledTripTtlSecs, TapCacheMax)

FloodInit ==
    /\ state = GatewayState_bootstrap(FloodSettings)
    /\ Boot(FloodSettings)

FloodTick ==
    /\ clock < FloodMaxClock
    /\ clock' = clock + 1
    /\ UNCHANGED <<state, last, history, debounce, upload_rx, buffer, card_rx, cmd_rx, net_cmd_rx, proc, net, lock, reader>>

FloodTap ==
    /\ state.last_tap_nonce < FloodMaxTaps
    /\ \E card_id \in HexCardIds :
          LET card == IdleCard(card_id, 1000)
              detected == [card_id |-> card_id, tap_time |-> clock,
                           card_data |-> card.card_data]
              passed == TapDebounce_allow(state.debounce, card_id, clock).ret
          IN \E r \in {handle_card(state, detected, clock, NowMs)} :
             /\ state' = r.self
             /\ last' = [op |-> "tap", detected |-> detected, now |-> clock,
                         decision |-> r.ret]
             /\ history' = Append(history, TapOutcome(detected, passed, r))
    /\ UNCHANGED <<clock, debounce, upload_rx, buffer, card_rx, cmd_rx, net_cmd_rx, proc, net, lock, reader>>

FloodNext == FloodTick \/ FloodTap

SpecFlood == FloodInit /\ [][FloodNext]_vars

(* ------------------------------------------------------------------ *)
(* SpecDebounce: TapDebounce::allow on its own, any card, any time     *)
(* ------------------------------------------------------------------ *)
Allow ==
    /\ \E card_id \in HexCardIds : \E now \in 0..MaxTime :
          LET r == TapDebounce_allow(debounce, card_id, now)
          IN /\ debounce' = r.self
             /\ last' = [op |-> "allow", card_id |-> card_id, now |-> now,
                         ret |-> r.ret]
    /\ UNCHANGED <<state, clock, history, upload_rx, buffer, card_rx, cmd_rx, net_cmd_rx, proc, net, lock, reader>>

DebounceNext == Allow

SpecDebounce == FloodInit /\ [][DebounceNext]_vars

(* ------------------------------------------------------------------ *)
(* SpecNet: the processor feeding the network loop's batch upload      *)
(* ------------------------------------------------------------------ *)
NetTick ==
    /\ clock < NetMaxClock
    /\ clock' = clock + 1
    /\ UNCHANGED <<state, last, history, debounce, upload_rx, buffer, card_rx, cmd_rx, net_cmd_rx, proc, net, lock, reader>>

\* pipeline.rs: the processor loop hands the upload record to the channel
NetTap ==
    /\ state.last_tap_nonce < NetMaxTaps
    /\ \E card_id \in HexCardIds :
          LET card == IdleCard(card_id, 1000)
              detected == [card_id |-> card_id, tap_time |-> clock,
                           card_data |-> card.card_data]
          IN \E r \in {handle_card(state, detected, clock, NowMs)} :
             /\ state' = r.self
             /\ last' = [op |-> "tap", detected |-> detected, now |-> clock,
                         decision |-> r.ret]
             /\ upload_rx' = IF IsSome(r.ret.upload_record)
                             THEN Append(upload_rx, Unwrap(r.ret.upload_record))
                             ELSE upload_rx
    /\ UNCHANGED <<clock, history, debounce, buffer, card_rx, cmd_rx, net_cmd_rx, proc, net, lock, reader>>

\* the buffer, were a record received put in front of the ones kept
Vec_push_front(v, x) == <<x>> \o v

\* Vec::push
Vec_push(v, x) == Append(v, x)

Flush(buf) ==
    \E outcome \in HttpOutcomes :
        \E f \in {flush_batch(state, buf, outcome)} :
           /\ state' = f.state
           /\ buffer' = f.buffer
           /\ last' = [op |-> "flush", before |-> buf, outcome |-> outcome,
                       ret |-> f.ret]

\* spawn_network_loop: recv_timeout returns a record
NetRecv ==
    /\ upload_rx # <<>>
    /\ upload_rx' = Tail(upload_rx)
    /\ LET buf == Vec_push(buffer, Head(upload_rx))
       IN IF Len(buf) >= BatchSize THEN Flush(buf)
          ELSE /\ buffer' = buf
               /\ last' = [op |-> "recv"]
               /\ UNCHANGED state
    /\ UNCHANGED <<clock, history, debounce, card_rx, cmd_rx, net_cmd_rx, proc, net, lock, reader>>

\* spawn_network_loop: recv_timeout times out, five seconds after the last
\* record arrived
NetTimeout ==
    /\ upload_rx = <<>>
    /\ buffer # <<>>
    /\ Flush(buffer)
    /\ UNCHANGED <<clock, history, debounce, upload_rx, card_rx, cmd_rx, net_cmd_rx, proc, net, lock, reader>>

NetNext == NetTick \/ NetTap \/ NetRecv \/ NetTimeout

SpecNet == FloodInit /\ [][NetNext]_vars
(* ------------------------------------------------------------------ *)
(* SpecPipe: the processor loop, the network loop and the write-result *)
(* loop as threads around the state lock                               *)
(* ------------------------------------------------------------------ *)
\* a lock that lets a thread in while another holds the guard
can_lock_always(l) == TRUE

\* Mutex::lock returns when no other thread holds the guard
can_lock(l) == l = "free"

SerialCommand_Write(write_req) == [kind |-> "Write", req |-> write_req]
SerialCommand_Ack(ack) == [kind |-> "Ack", ack |-> ack]

\* the processor loop, were it to keep the write request to itself
send_write_dropped(tx, decision) == tx

\* spawn_processor_loop, lines 59-61: the write request, if the decision has one
send_write(tx, decision) ==
    IF IsSome(decision.write_request)
    THEN Append(tx, SerialCommand_Write(Unwrap(decision.write_request)))
    ELSE tx

\* spawn_processor_loop, line 63: the ACK
send_ack(tx, decision) == Append(tx, SerialCommand_Ack(decision.ack))

PipeCards == {IdleCard("0A0B0C01", 1000),
              [card_id |-> "0A0B0C02", card_data |-> [kind |-> "short"]]}

PipeTick ==
    /\ clock < PipeMaxClock
    /\ clock' = clock + 1
    /\ UNCHANGED <<state, last, history, debounce, upload_rx, buffer, card_rx, cmd_rx, net_cmd_rx, proc, net, lock, reader>>

\* uart_link.rs: the RX task hands a card-detected event to the processor
CardArrives ==
    /\ state.last_tap_nonce + Len(card_rx) + (IF proc.pc = "handle" THEN 1 ELSE 0)
          < PipeMaxCards
    /\ \E card \in PipeCards :
          card_rx' = Append(card_rx, [card_id |-> card.card_id, tap_time |-> clock,
                                      card_data |-> card.card_data])
    /\ UNCHANGED <<state, clock, last, history, debounce, upload_rx, buffer, cmd_rx, net_cmd_rx, proc, net, lock, reader>>

\* spawn_processor_loop, lines 52-57: recv, the clock, the lookup command
ProcRecv ==
    /\ proc.pc = "recv"
    /\ card_rx # <<>>
    /\ card_rx' = Tail(card_rx)
    /\ net_cmd_rx' = Append(net_cmd_rx, [kind |-> "LookupCard",
                                         card_id |-> Head(card_rx).card_id])
    /\ proc' = [pc |-> "handle", card |-> Head(card_rx), now |-> clock]
    /\ UNCHANGED <<state, clock, last, history, debounce, upload_rx, buffer, cmd_rx, net, lock, reader>>

\* spawn_processor_loop, line 58: handle_card takes the lock and holds it
\* until it returns
ProcHandle ==
    /\ proc.pc = "handle"
    /\ can_lock(lock)
    /\ \E r \in {handle_card(state, proc.card, proc.now, proc.now * 1000)} :
          /\ state' = r.self
          /\ proc' = [pc |-> "write", decision |-> r.ret]
          /\ last' = [op |-> "tap", detected |-> proc.card, now |-> proc.now,
                      decision |-> r.ret]
          /\ history' = Append(history,
                 TapOutcome(proc.card,
                     TapDebounce_allow(state.debounce, proc.card.card_id, proc.now).ret,
                     r))
    /\ UNCHANGED <<clock, debounce, upload_rx, buffer, card_rx, cmd_rx, net_cmd_rx, net, lock, reader>>

ProcWrite ==
    /\ proc.pc = "write"
    /\ cmd_rx' = send_write(cmd_rx, proc.decision)
    /\ proc' = [proc EXCEPT !.pc = "ack"]
    /\ UNCHANGED <<state, clock, last, history, debounce, upload_rx, buffer, card_rx, net_cmd_rx, net, lock, reader>>

ProcAck ==
    /\ proc.pc = "ack"
    /\ cmd_rx' = send_ack(cmd_rx, proc.decision)
    /\ proc' = [proc EXCEPT !.pc = "upload"]
    /\ UNCHANGED <<state, clock, last, history, debounce, upload_rx, buffer, card_rx, net_cmd_rx, net, lock, reader>>

\* spawn_processor_loop, lines 64-70: the upload record and the registration
ProcUpload ==
    /\ proc.pc = "upload"
    /\ upload_rx' = IF IsSome(proc.decision.upload_record)
                    THEN Append(upload_rx, Unwrap(proc.decision.upload_record))
                    ELSE upload_rx
    /\ net_cmd_rx' = IF IsSome(proc.decision.registration)
                     THEN Append(net_cmd_rx,
                                 [kind |-> "RegisterCard",
                                  payload |-> Unwrap(proc.decision.registration)])
                     ELSE net_cmd_rx
    /\ proc' = [pc |-> "recv"]
    /\ UNCHANGED <<state, clock, last, history, debounce, buffer, card_rx, cmd_rx, net, lock, reader>>

\* spawn_write_result_loop: the reader reports the outcome of a write
PipeWriteResult ==
    /\ IsSome(state.last_write_context)
    /\ can_lock(lock)
    /\ \E result \in {0, 1} : state' = handle_write_result(state, result, NowMs)
    /\ UNCHANGED <<clock, last, history, debounce, upload_rx, buffer, card_rx, cmd_rx, net_cmd_rx, proc, net, lock, reader>>

\* spawn_network_loop: a command of the processor. The backend knows the card
\* or does not; a registration is posted and changes nothing in the gateway.
NetCommand ==
    /\ net.pc = "idle"
    /\ net_cmd_rx # <<>>
    /\ net_cmd_rx' = Tail(net_cmd_rx)
    /\ IF Head(net_cmd_rx).kind = "LookupCard"
       THEN /\ can_lock(lock)
            /\ \E found \in BOOLEAN :
                  state' = IF found
                           THEN apply_card_profile(state, Head(net_cmd_rx).card_id,
                                    Profile(Some("student"), Some("active"), Some(1000)),
                                    NowMs)
                           ELSE state
       ELSE UNCHANGED state
    /\ UNCHANGED <<clock, last, history, debounce, upload_rx, buffer, card_rx, cmd_rx, proc, net, lock, reader>>

\* sync_config, lines 370-374: the route configuration arrives and
\* update_route_config begins under the lock: the cache first (state.rs 198-200)
SyncBegin ==
    /\ net.pc = "idle"
    /\ net.syncs < PipeMaxSyncs
    /\ can_lock(lock)
    /\ lock' = "net"
    /\ \E config \in Configs :
          /\ net' = [pc |-> "route", syncs |-> net.syncs + 1, config |-> config,
                     now |-> clock]
          /\ state' = [state EXCEPT !.config_cache =
                          [route |-> Some(config), fetched_at |-> clock]]
    /\ UNCHANGED <<clock, last, history, debounce, upload_rx, buffer, card_rx, cmd_rx, net_cmd_rx, proc, reader>>

\* update_route_config, lines 202-220: the route state follows, the guard drops
SyncRoute ==
    /\ net.pc = "route"
    /\ state' = update_route_config(state, net.config, net.now)
    /\ lock' = "free"
    /\ net' = [pc |-> "blacklist", syncs |-> net.syncs, now |-> net.now]
    /\ UNCHANGED <<clock, last, history, debounce, upload_rx, buffer, card_rx, cmd_rx, net_cmd_rx, proc, reader>>

\* sync_config, lines 381-393: the blacklist, then the health flag
SyncBlacklistStep ==
    /\ net.pc = "blacklist"
    /\ can_lock(lock)
    /\ \E cards \in Blacklists : state' = update_blacklist(state, cards, net.now)
    /\ net' = [pc |-> "status", syncs |-> net.syncs]
    /\ UNCHANGED <<clock, last, history, debounce, upload_rx, buffer, card_rx, cmd_rx, net_cmd_rx, proc, lock, reader>>

SyncStatus ==
    /\ net.pc = "status"
    /\ can_lock(lock)
    /\ state' = update_backend_status(state, TRUE)
    /\ net' = [pc |-> "idle", syncs |-> net.syncs]
    /\ UNCHANGED <<clock, last, history, debounce, upload_rx, buffer, card_rx, cmd_rx, net_cmd_rx, proc, lock, reader>>

PipeNext ==
    \/ PipeTick
    \/ CardArrives
    \/ ProcRecv
    \/ ProcHandle
    \/ ProcWrite
    \/ ProcAck
    \/ ProcUpload
    \/ PipeWriteResult
    \/ NetCommand
    \/ SyncBegin
    \/ SyncRoute
    \/ SyncBlacklistStep
    \/ SyncStatus

SpecPipe == FloodInit /\ [][PipeNext]_vars

(* ------------------------------------------------------------------ *)
(* SpecModes: the operator's modes set and cleared between taps        *)
(* ------------------------------------------------------------------ *)
ModeTick ==
    /\ clock + ModeTickSecs <= ModeMaxClock
    /\ clock' = clock + ModeTickSecs
    /\ UNCHANGED <<state, last, history, debounce, upload_rx, buffer, card_rx, cmd_rx, net_cmd_rx, proc, net, lock, reader>>

\* a registered card, and a blank card whose payload is too short to parse
ModeCards == {IdleCard("0A0B0C01", 1000),
              [card_id |-> "0A0B0C02", card_data |-> [kind |-> "short"]]}

ModesOf(s) == [recharge |-> s.recharge_mode, register |-> s.register_mode]

ModeTap ==
    /\ state.last_tap_nonce < ModeMaxTaps
    /\ \E card \in ModeCards :
          LET detected == [card_id |-> card.card_id, tap_time |-> clock,
                           card_data |-> card.card_data]
          IN \E r \in {handle_card(state, detected, clock, NowMs)} :
             /\ state' = r.self
             /\ last' = [op |-> "tap", detected |-> detected, now |-> clock,
                         decision |-> r.ret, modes |-> ModesOf(state)]
    /\ UNCHANGED <<clock, history, debounce, upload_rx, buffer, card_rx, cmd_rx, net_cmd_rx, proc, net, lock, reader>>

\* an amount of 0 or above MAX_RECHARGE_CENTS is refused
ModeSetRecharge ==
    /\ \E amount_cents \in {0, 500, MAX_RECHARGE_CENTS + 1} :
          /\ state' = set_recharge_mode(state, amount_cents, NowMs)
          /\ last' = [op |-> "set_recharge", amount_cents |-> amount_cents,
                      modes |-> ModesOf(state)]
    /\ UNCHANGED <<clock, history, debounce, upload_rx, buffer, card_rx, cmd_rx, net_cmd_rx, proc, net, lock, reader>>

ModeSetRegister ==
    /\ state' = set_register_mode(state, NowMs)
    /\ last' = [op |-> "set_register", modes |-> ModesOf(state)]
    /\ UNCHANGED <<clock, history, debounce, upload_rx, buffer, card_rx, cmd_rx, net_cmd_rx, proc, net, lock, reader>>

ModeClear ==
    /\ \E which \in {"recharge", "register"} :
          /\ state' = IF which = "recharge" THEN clear_recharge_mode(state)
                      ELSE clear_register_mode(state)
          /\ last' = [op |-> "clear", which |-> which, modes |-> ModesOf(state)]
    /\ UNCHANGED <<clock, history, debounce, upload_rx, buffer, card_rx, cmd_rx, net_cmd_rx, proc, net, lock, reader>>

\* pipeline.rs: the write-result loop
ModeWriteResult ==
    /\ IsSome(state.last_write_context)
    /\ \E result \in {0, 1} :
          /\ state' = handle_write_result(state, result, NowMs)
          /\ last' = [op |-> "write_result", result |-> result,
                      context |-> state.last_write_context, modes |-> ModesOf(state)]
    /\ UNCHANGED <<clock, history, debounce, upload_rx, buffer, card_rx, cmd_rx, net_cmd_rx, proc, net, lock, reader>>

ModeNext ==
    \/ ModeTick
    \/ ModeTap
    \/ ModeSetRecharge
    \/ ModeSetRegister
    \/ ModeClear
    \/ ModeWriteResult

SpecModes == FloodInit /\ [][ModeNext]_vars

(* ------------------------------------------------------------------ *)
(* Properties of the Decision                                          *)
(* ------------------------------------------------------------------ *)
\* a step that handled a card-detected event
TapStep == state'.last_tap_nonce # state.last_tap_nonce

Rejected(decision) == decision.ack.result = 0
Accepted(decision) == decision.ack.result = 1

\* the payload holds a record and the record is the card's own
ParsedCard(detected) ==
    /\ detected.card_data.kind = "ok"
    /\ detected.card_id \in HexCardIds => detected.card_data.data.uid = detected.card_id

\* C1: whenever handle_card_detected returns a Decision with a rejected ACK,
\* the Decision carries no tap event and no upload record.
C1_RejectedCarriesNothing ==
    last.op = "tap" /\ Rejected(last.decision)
        => last.decision.event = None /\ last.decision.upload_record = None

\* a tap rejected for insufficient balance, after its event was built
C1_Witness ==
    /\ last.op = "tap"
    /\ Rejected(last.decision)
    /\ state.last_passenger_message = "insufficient_balance"

\* C2: no Decision carries both a tap event and a registration, and a
\* Decision with a registration carries no upload record.
C2_EventOrRegistration ==
    last.op = "tap"
        => /\ ~(IsSome(last.decision.event) /\ IsSome(last.decision.registration))
           /\ IsSome(last.decision.registration) => last.decision.upload_record = None

\* a card was registered
C2_Witness ==
    /\ last.op = "tap"
    /\ IsSome(last.decision.registration)
    /\ Accepted(last.decision)

\* C3: a tap of a blacklisted card that passes the debounce filter is
\* rejected without an upload record in every mode, and the Decision carries
\* a write-request, which sets the on-card status to blocked, exactly when
\* the card data was parsed (and is the card's own) and the on-card status
\* was not blocked already.
C3_BlacklistedRejected ==
    [][TapStep =>
        LET detected == last'.detected
            decision == last'.decision
        IN /\ BlacklistCache_is_blocked(state.blacklist_cache, detected.card_id)
           /\ TapDebounce_allow(state.debounce, detected.card_id, last'.now).ret
           => /\ Rejected(decision)
              /\ decision.upload_record = None
              /\ IsSome(decision.write_request)
                    <=> (ParsedCard(detected)
                         /\ detected.card_data.data.status # "Blocked")
              /\ IsSome(decision.write_request)
                    => Unwrap(decision.write_request).card_data.status
                          = CardStatus_as_u8("Blocked")]_vars

\* a blacklisted card tapped in register mode: rejected, and blocked on the card
C3_Witness ==
    /\ last.op = "tap"
    /\ BlacklistCache_is_blocked(state.blacklist_cache, last.detected.card_id)
    /\ IsSome(state.register_mode)
    /\ Rejected(last.decision)
    /\ IsSome(last.decision.write_request)

SingleTapMode(s) ==
    ~IsSome(s.config_cache.route) \/ Unwrap(s.config_cache.route).tap_mode = "SingleTap"

\* the balance a tap reads: the card's, or the cached profile's when the
\* card's data is unusable
BalanceRead(s, detected, now_ms) ==
    IF ParsedCard(detected) THEN detected.card_data.data.balance_cents
    ELSE Unwrap(card_from_profile(s, detected.card_id, decode_uid_hex(detected.card_id),
                                  now_ms).ret).balance_cents

\* C4: a tap accepted on a charging path (single-tap, or tap-out) with
\* balance B read and fare F charged has F = 0 or B >= F, and its
\* write-request carries the balance B - F, between 0 and B.
C4_BalanceAfterFare ==
    [][TapStep =>
        LET detected == last'.detected
            decision == last'.decision
            B == BalanceRead(state, detected, NowMs)
            F == fare_to_cents(state')
        IN /\ Accepted(decision)
           /\ IsSome(decision.event)
           /\ SingleTapMode(state) \/ Unwrap(decision.event).tap_type = "TapOut"
           => /\ IsSome(decision.write_request)
              /\ F = 0 \/ B >= F
              /\ Unwrap(decision.write_request).card_data.balance = B - F
              /\ 0 <= B - F /\ B - F <= B]_vars

\* a tap-out that was charged
C4_Witness ==
    /\ last.op = "tap"
    /\ Accepted(last.decision)
    /\ IsSome(last.decision.event)
    /\ Unwrap(last.decision.event).tap_type = "TapOut"
    /\ fare_to_cents(state) > 0
    /\ IsSome(last.decision.write_request)
    /\ Unwrap(last.decision.write_request).card_data.balance < 1000

\* the pending tap-in the cache holds for a card
TripOf(cache, card_id) ==
    LET pos == Position(cache.entries, LAMBDA e : e.card_id = card_id)
    IN IF pos = 0 THEN None ELSE Some(cache.entries[pos].event)

\* C5: in tap-in-out mode a tap-out rejected for insufficient balance leaves
\* the card's pending tap-in in the active-trip cache, with the boarding
\* station and time it had, the Decision carries neither write-request nor
\* upload record, and a later tap of the card finds the trip again.
C5_RolledBackTripKept ==
    [][TapStep =>
        LET card_id == last'.detected.card_id
            decision == last'.decision
            pending == TripOf(ActiveTripCache_purge_expired(state.active_trips,
                                                            last'.now), card_id)
            kept == TripOf(state'.active_trips, card_id)
        IN /\ ~SingleTapMode(state)
           /\ IsSome(pending)
           /\ Rejected(decision)
           /\ state'.last_passenger_message = "insufficient_balance"
           => /\ IsSome(kept)
              /\ Unwrap(kept).station_id = Unwrap(pending).station_id
              /\ Unwrap(kept).tap_time = Unwrap(pending).tap_time
              /\ decision.write_request = None
              /\ decision.upload_record = None
              /\ IsSome(ActiveTripCache_take(state'.active_trips, card_id,
                                             last'.now).ret)]_vars

\* a tap-out rejected for insufficient balance at another station than the
\* one the passenger boarded at, the trip still pending
C5_Witness ==
    /\ last.op = "tap"
    /\ Rejected(last.decision)
    /\ state.last_passenger_message = "insufficient_balance"
    /\ IsSome(TripOf(state.active_trips, last.detected.card_id))
    /\ Unwrap(TripOf(state.active_trips, last.detected.card_id)).station_id
          # state.route_state.station_id
    /\ last.now > 0

TapInKind(h) ==
    /\ Accepted(h.decision)
    /\ IsSome(h.decision.event)
    /\ Unwrap(h.decision.event).tap_type = "TapIn"

\* a tap the engine took for a tap-out: accepted as one, or rejected for
\* insufficient balance and rolled back
TapOutKind(h) ==
    \/ /\ Accepted(h.decision)
       /\ IsSome(h.decision.event)
       /\ Unwrap(h.decision.event).tap_type = "TapOut"
    \/ Rejected(h.decision) /\ h.message = "insufficient_balance"

\* C6: in tap-in-out mode every tap classified as a tap-out follows a tap-in
\* of the same card that happened no more than the active-trip TTL before
\* it, rolled-back tap-outs in between included.
C6_TapOutWithinTtl ==
    \A j \in 1..Len(history) :
        TapOutKind(history[j])
            => \E i \in 1..(j - 1) :
                  /\ history[i].card_id = history[j].card_id
                  /\ TapInKind(history[i])
                  /\ history[j].now - history[i].now
                        <= state.settings.active_trip_ttl_secs

\* exactly one upload record, of a tap-in
OneTapInRecord(decision) ==
    /\ IsSome(decision.event)
    /\ IsSome(decision.upload_record)
    /\ Unwrap(decision.event).tap_type = "TapIn"
    /\ Unwrap(decision.upload_record).record_id = Unwrap(decision.event).record_id
    /\ Unwrap(decision.upload_record).alight_time = None

\* neither register mode nor recharge mode is active when the tap arrives
NoModeActive ==
    LET s == refresh_modes(state, NowMs)
    IN ~IsSome(s.register_mode) /\ ~IsSome(s.recharge_mode)

\* C7, as the claim states it: in single-tap mode every accepted ACK comes
\* with exactly one upload record, of a tap-in.
C7_AcceptedUploadsOnce ==
    [][TapStep /\ SingleTapMode(state) /\ Accepted(last'.decision)
          => OneTapInRecord(last'.decision)]_vars

\* C7, amended: in single-tap mode every tap accepted on the normal tap path
\* (neither register mode nor recharge mode active) comes with exactly one
\* upload record, of a tap-in.
C7_AcceptedTapUploadsOnce ==
    [][TapStep /\ SingleTapMode(state) /\ NoModeActive /\ Accepted(last'.decision)
          => OneTapInRecord(last'.decision)]_vars

\* a second accepted tap of one card on a single-tap route
C7_Witness ==
    /\ last.op = "tap"
    /\ IsSome(state.config_cache.route)
    /\ SingleTapMode(state)
    /\ Accepted(last.decision)
    /\ OneTapInRecord(last.decision)
    /\ state.record_seq = 2

(* ------------------------------------------------------------------ *)
(* Properties of the debounce filter                                   *)
(* ------------------------------------------------------------------ *)
TooFast(h) ==
    /\ Rejected(h.decision)
    /\ h.message = "tap_too_fast"
    /\ h.decision.upload_record = None
    /\ h.decision.write_request = None

\* tap i passed the filter, tap j is a later tap of the same card within
\* the window
Within(i, j) ==
    /\ i < j
    /\ history[i].card_id = history[j].card_id
    /\ history[i].passed
    /\ history[j].now <= history[i].now + state.settings.debounce_window_secs

\* the cards that passed the filter from one window before tap i up to tap j
PassedSince(i, j) ==
    {history[k].card_id :
        k \in {k \in 1..j : /\ history[k].passed
                             /\ history[k].now + state.settings.debounce_window_secs
                                   >= history[i].now}}

\* C8, as the claim states it: after a tap of a card passed the filter at t,
\* every tap of the card up to t + window is rejected as tap-too-fast,
\* without upload record and write-request.
C8_RepeatRejected ==
    \A i, j \in 1..Len(history) : Within(i, j) => TooFast(history[j])

\* C8, amended: the same, as long as no more cards than the debounce cache
\* holds (max_len, 128) passed the filter from one window before t on; and
\* then two taps of a card within the window yield at most one upload record.
C8_RepeatRejectedWithinCapacity ==
    \A i, j \in 1..Len(history) :
        Within(i, j) /\ Cardinality(PassedSince(i, j)) <= state.debounce.max_len
            => /\ TooFast(history[j])
               /\ ~(IsSome(history[i].decision.upload_record)
                     /\ IsSome(history[j].decision.upload_record))

\* two taps of a card one second apart: the first uploaded, the second too fast
C8_Witness ==
    \E i, j \in 1..Len(history) :
        /\ Within(i, j)
        /\ history[j].now = history[i].now + 1
        /\ IsSome(history[i].decision.upload_record)
        /\ TooFast(history[j])

\* C9, as the claim states it: the cache never holds more than max_len
\* entries, and every entry is within the window of the most recent call.
C9_WithinWindowOfLastCall ==
    /\ Len(debounce.entries) <= debounce.max_len
    /\ last.op = "allow"
          => \A k \in 1..Len(debounce.entries) :
                /\ last.now - debounce.entries[k].last_seen <= debounce.window_secs
                /\ debounce.entries[k].last_seen - last.now <= debounce.window_secs

\* C9, amended: the cache never holds more than max_len entries, and no
\* entry was last seen more than the window before the most recent call (an
\* entry may have been seen later than it, when the time went back).
C9_NoEntryOlderThanWindow ==
    /\ Len(debounce.entries) <= debounce.max_len
    /\ last.op = "allow"
          => \A k \in 1..Len(debounce.entries) :
                last.now - debounce.entries[k].last_seen <= debounce.window_secs

\* a full cache after a call whose time lies before an entry's
C9_Witness ==
    /\ last.op = "allow"
    /\ last.ret
    /\ Len(debounce.entries) = debounce.max_len
    /\ \E k \in 1..Len(debounce.entries) : debounce.entries[k].last_seen > last.now

(* ------------------------------------------------------------------ *)
(* Properties of the batch upload                                      *)
(* ------------------------------------------------------------------ *)
Is2xx(outcome) ==
    outcome.kind = "status" /\ 200 <= outcome.status /\ outcome.status < 300

\* C10: after flush_batch the upload buffer is empty if the POST returned a
\* 2xx status, and holds the records it held, in their order, after any
\* other status and after a transport error.
C10_FlushAllOrNothing ==
    last.op = "flush"
        => IF Is2xx(last.outcome) THEN buffer = <<>> ELSE buffer = last.before

\* a batch of two kept after a failed POST
C10_Witness ==
    /\ last.op = "flush"
    /\ ~Is2xx(last.outcome)
    /\ Len(last.before) >= 2
    /\ buffer = last.before

(* ------------------------------------------------------------------ *)
(* Properties of the health flag                                       *)
(* ------------------------------------------------------------------ *)
\* C11: after a batch upload attempt that failed (a status outside 200..299
\* or a transport error) backend_reachable is false, and after one that
\* succeeded it is true
C11_FlagFollowsUpload ==
    (last.op = "flush" /\ last.before # <<>>)
        => (state.backend_reachable <=> Is2xx(last.outcome))

(* ------------------------------------------------------------------ *)
(* Properties of the channels                                          *)
(* ------------------------------------------------------------------ *)
\* the commands one tap is to put on the serial command channel
CommandsOf(decision) ==
    (IF IsSome(decision.write_request)
     THEN <<[kind |-> "Write", req |-> Unwrap(decision.write_request)]>>
     ELSE <<>>) \o <<[kind |-> "Ack", ack |-> decision.ack]>>

RECURSIVE CommandsOfAll(_)
CommandsOfAll(h) ==
    IF h = <<>> THEN <<>>
    ELSE CommandsOfAll(SubSeq(h, 1, Len(h) - 1)) \o CommandsOf(h[Len(h)].decision)

\* C12: the serial command channel holds, for the taps handled so far and in
\* their order, the write request (if the decision has one) and then the
\* ACK, and nothing else; of the tap being answered it holds what the
\* processor has sent so far
C12_CommandsInTapOrder ==
    IF proc.pc = "write"
    THEN cmd_rx = CommandsOfAll(SubSeq(history, 1, Len(history) - 1))
    ELSE IF proc.pc = "ack"
    THEN cmd_rx = CommandsOfAll(SubSeq(history, 1, Len(history) - 1))
                    \o SubSeq(CommandsOf(proc.decision), 1,
                              Len(CommandsOf(proc.decision)) - 1)
    ELSE cmd_rx = CommandsOfAll(history)

\* two taps answered: the first with a write request and an ACK, the second,
\* rejected, with an ACK alone
C12_Witness ==
    /\ Len(history) = 2
    /\ proc.pc = "recv"
    /\ Len(cmd_rx) = 3
    /\ cmd_rx[1].kind = "Write" /\ cmd_rx[2].kind = "Ack" /\ cmd_rx[3].kind = "Ack"
    /\ cmd_rx[3].ack.result = 0

\* records in the order their taps were processed: record_id ends with the
\* sequence number next_record_id gave the tap
InTapOrder(records) ==
    \A i, j \in 1..Len(records) :
        i < j => records[i].record_id[3] < records[j].record_id[3]

\* C13: the batch just posted, the records the buffer holds and the records
\* still on the upload channel are, one after the other, in tap order; a
\* batch that failed is the front of the buffer
C13_BufferInTapOrder ==
    /\ InTapOrder((IF last.op = "flush" /\ Is2xx(last.outcome)
                   THEN last.before ELSE <<>>) \o buffer \o upload_rx)
    /\ (last.op = "flush" /\ ~Is2xx(last.outcome)) => InTapOrder(last.before)

\* a batch of three posted: two records kept by a failed flush and a newer one
C13_Witness ==
    /\ last.op = "flush"
    /\ Is2xx(last.outcome)
    /\ Len(last.before) = 3
    /\ last.before[1].card_id = last.before[3].card_id

(* ------------------------------------------------------------------ *)
(* Properties of the operator's modes                                  *)
(* ------------------------------------------------------------------ *)
\* C14: recharge mode and register mode are never active together; after
\* set_register_mode the recharge mode is None, and after a set_recharge_mode
\* that activated recharge the register mode is None
C14_AtMostOneMode ==
    /\ ~(IsSome(state.recharge_mode) /\ IsSome(state.register_mode))
    /\ last.op = "set_register"
          => IsSome(state.register_mode) /\ ~IsSome(state.recharge_mode)
    /\ (last.op = "set_recharge" /\ last.amount_cents \in 1..MAX_RECHARGE_CENTS)
          => IsSome(state.recharge_mode) /\ ~IsSome(state.register_mode)

\* register mode set while recharge mode was active, after a tap
C14_Witness ==
    /\ last.op = "set_register"
    /\ IsSome(last.modes.recharge)
    /\ state.last_tap_nonce > 0
    /\ IsSome(state.register_mode)

\* a mode is active in s and now_ms is at or after its expires_at_ms
ModeExpired(s, now_ms) ==
    \/ IsSome(s.recharge_mode) /\ now_ms >= Unwrap(s.recharge_mode).expires_at_ms
    \/ IsSome(s.register_mode) /\ now_ms >= Unwrap(s.register_mode).expires_at_ms

\* C15: a tap at or after the expiry of the active mode leaves no mode
\* active, returns no registration, and is decided as the same tap is
\* decided when no mode was ever set
C15_ExpiredModeIgnored ==
    [][(TapStep /\ ModeExpired(state, NowMs))
         => /\ ~IsSome(state'.recharge_mode) /\ ~IsSome(state'.register_mode)
            /\ last'.decision.registration = None
            /\ \E r \in {handle_card([state EXCEPT !.recharge_mode = None,
                                                   !.register_mode = None],
                                     last'.detected, clock, NowMs)} :
                  state' = r.self /\ last'.decision = r.ret]_vars

\* a tap in the millisecond register mode expires at, accepted as a trip
C15_Witness ==
    /\ last.op = "tap"
    /\ IsSome(last.modes.register)
    /\ last.now * 1000 = Unwrap(last.modes.register).expires_at_ms
    /\ last.decision.ack.result = 1
    /\ IsSome(last.decision.event)
    /\ ~IsSome(state.register_mode)

\* C16: once the write of a registration is reported successful, register
\* mode is off
C16_RegisterClearedOnSuccess ==
    (last.op = "write_result" /\ last.result = 1 /\ last.context = Some("Register"))
        => ~IsSome(state.register_mode)

(* ------------------------------------------------------------------ *)
(* Properties of the state lock                                        *)
(* ------------------------------------------------------------------ *)
\* the route state and the cached route configuration belong together: no
\* configuration and the route state of the boot, or a configuration and a
\* station of its route
ConfigWhole(s) ==
    IF IsSome(s.config_cache.route)
    THEN LET cfg == Unwrap(s.config_cache.route)
         IN /\ s.route_state.route_id = cfg.route_id
            /\ \E i \in 1..Len(cfg.stations) :
                  /\ cfg.stations[i].id = s.route_state.station_id
                  /\ cfg.stations[i].name = s.route_state.station_name
    ELSE s.route_state = RouteState_new(0, 0, "unset", "Up")

\* C17: a tap is never handled between the two halves of a configuration
\* refresh: the state it reads has the configuration and the route state of
\* before the refresh or of after it, and the event it returns names the
\* route and the station of that state
C17_TapSeesWholeConfig ==
    [][TapStep
         => /\ net.pc # "route"
            /\ ConfigWhole(state)
            /\ IsSome(last'.decision.event)
                  => /\ Unwrap(last'.decision.event).route_id = state.route_state.route_id
                     /\ Unwrap(last'.decision.event).station_id
                            = state.route_state.station_id]_vars

\* one tap handled before the refresh and one after it
C17_Witness ==
    /\ Len(history) = 2
    /\ IsSome(history[1].decision.event)
    /\ Unwrap(history[1].decision.event).route_id = 0
    /\ IsSome(history[2].decision.event)
    /\ Unwrap(history[2].decision.event).route_id = 101
    /\ Unwrap(history[2].decision.event).station_id = 1

(* ------------------------------------------------------------------ *)
(* SpecFrame: a FrameReader fed garbage bytes and then an encoded frame *)
(* ------------------------------------------------------------------ *)
\* the bytes a noisy line delivers: zero, the version byte, both header bytes
GarbageBytes == {0, FRAME_VERSION, FRAME_HEADER[2], FRAME_HEADER[1]}

FrameSamples ==
    {Frame(msg_type, 0, payload) :
        msg_type \in {MSG_CARD_DETECTED, MSG_CARD_ACK},
        payload \in {<<>>, <<FRAME_HEADER[1]>>, FRAME_HEADER}}

\* the bytes pushed so far
BytesOf(h) == [i \in 1..Len(h) |-> h[i].byte]

PushGarbage ==
    /\ last.op # "frame"
    /\ Len(history) < FrameMaxGarbage
    /\ \E byte \in GarbageBytes :
          \E r \in {FrameReader_push(reader, byte)} :
             /\ reader' = r.self
             /\ last' = [op |-> "push", byte |-> byte, ret |-> r.ret]
             /\ history' = Append(history, [byte |-> byte, ret |-> r.ret])
    /\ UNCHANGED <<state, clock, debounce, upload_rx, buffer, card_rx, cmd_rx, net_cmd_rx, proc, net, lock>>

PushFrame ==
    /\ last.op # "frame"
    /\ \E frame \in FrameSamples :
          \E r \in {push_bytes(reader, encode_frame(frame), <<>>)} :
             /\ reader' = r.self
             /\ last' = [op |-> "frame", garbage |-> BytesOf(history),
                         before |-> reader, frame |-> frame, rets |-> r.rets]
    /\ UNCHANGED <<state, clock, history, debounce, upload_rx, buffer, card_rx, cmd_rx, net_cmd_rx, proc, net, lock>>

FrameNext == PushGarbage \/ PushFrame

SpecFrame == FloodInit /\ [][FrameNext]_vars

(* ------------------------------------------------------------------ *)
(* C18                                                                 *)
(* ------------------------------------------------------------------ *)
\* the frame's bytes gave nothing before the last one, and the last one gave
\* the frame
YieldsOnLastByte(rets, frame) ==
    /\ rets[Len(rets)] = Some(Frame_Ok(frame))
    /\ \A i \in 1..(Len(rets) - 1) : rets[i] = None

\* C18: an encoded frame pushed byte by byte into a FrameReader yields that
\* frame on its last byte, and it still yields that frame on its last byte
\* when any garbage bytes were pushed before it.
C18_FrameAfterGarbage ==
    last.op = "frame" =>
        /\ last.rets[Len(last.rets)] = Some(Frame_Ok(last.frame))
        /\ (last.garbage = <<>> => YieldsOnLastByte(last.rets, last.frame))

\* What the reader does deliver: the frame comes out on its last byte
\* whenever the reader is between frames (its buffer empty) at the frame's
\* first byte.
FrameFromIdleReader ==
    (last.op = "frame" /\ last.before.buffer = <<>>)
        => YieldsOnLastByte(last.rets, last.frame)

(* ------------------------------------------------------------------ *)
(* SpecProto: decode_frame applied to the bytes of encode_frame        *)
(* ------------------------------------------------------------------ *)
\* a payload of len bytes, each equal to fill
PayloadOf(len, fill) == [i \in 1..len |-> fill]

\* short payloads under every message type and flag byte, and the payloads
\* whose length is at the end of the u16 range
MsgTypes == {0, MSG_CARD_DETECTED, MSG_CARD_ACK, 3, 4, 5, 255}
ShortFrames ==
    {Frame(msg_type, flags, PayloadOf(len, fill)) :
        msg_type \in MsgTypes, flags \in {0, 1, 3, 255},
        len \in 0..ProtoMaxLen, fill \in {0, 255}}
LongFrames ==
    {Frame(msg_type, 0, PayloadOf(len, 0)) :
        msg_type \in {MSG_CARD_DETECTED, MSG_CARD_ACK},
        len \in (U16Max - 2)..U16Max}

DecodeEncoded ==
    /\ last = NoCall
    /\ \E frame \in ShortFrames \cup LongFrames :
          last' = [op |-> "decode_frame", frame |-> frame,
                   ret |-> decode_frame(encode_frame(frame))]
    /\ UNCHANGED <<state, clock, history, debounce, upload_rx, buffer, card_rx, cmd_rx, net_cmd_rx, proc, net, lock, reader>>

ProtoNext == DecodeEncoded

SpecProto == FloodInit /\ [][ProtoNext]_vars

(* ------------------------------------------------------------------ *)
(* C19                                                                 *)
(* ------------------------------------------------------------------ *)
\* C19: for every frame with a payload of at most 65535 bytes, decode_frame
\* of the bytes of encode_frame succeeds with the same message type, flags
\* and payload.
C19_DecodeEncodeRoundTrip ==
    (last.op = "decode_frame" /\ Len(last.frame.payload) <= U16Max)
        => last.ret = Frame_Ok(last.frame)

\* What the code does deliver: the round trip for every payload that leaves
\* the length field (payload + 2) within a u16.
RoundTripWithinLengthField ==
    (last.op = "decode_frame" /\ 1 + 1 + Len(last.frame.payload) <= U16Max)
        => last.ret = Frame_Ok(last.frame)

(* ------------------------------------------------------------------ *)
(* card_data.rs: the 32 bytes of a card record                         *)
(* ------------------------------------------------------------------ *)
\* the four bytes of a UID named by its hex text
uid_bytes(uid) ==
    <<10, 11, 12, CASE uid = "0A0B0C01" -> 1 [] uid = "0A0B0C02" -> 2 [] OTHER -> 3>>
uid_from_bytes(bytes) ==
    IF \E uid \in HexCardIds : uid_bytes(uid) = bytes
    THEN CHOOSE uid \in HexCardIds : uid_bytes(uid) = bytes
    ELSE ""

\* u32::to_le_bytes, u32::from_le_bytes
u32_to_le_bytes(v) ==
    <<v % 256, (v \div 256) % 256, (v \div 65536) % 256, (v \div 16777216) % 256>>
u32_from_le_bytes(b) == b[1] + 256 * b[2] + 65536 * b[3] + 16777216 * b[4]

\* a ^ b on unsigned integers
RECURSIVE BitXor(_, _)
BitXor(a, b) ==
    IF a = 0 THEN b
    ELSE IF b = 0 THEN a
    ELSE ((a + b) % 2) + 2 * BitXor(a \div 2, b \div 2)

\* crc16: the inner loop's step for one bit, the eight steps of one byte,
\* the bytes in order
crc16_bit(crc) ==
    IF crc >= 32768 THEN BitXor(AsU16(crc * 2), 4129) ELSE AsU16(crc * 2)
RECURSIVE crc16_bits(_, _)
crc16_bits(crc, n) ==
    IF n = 0 THEN crc
    ELSE With([next \in {crc16_bit(crc)} |-> crc16_bits(next, n - 1)])
RECURSIVE crc16_from(_, _, _)
crc16_from(crc, data, i) ==
    IF i > Len(data) THEN crc
    ELSE With([next \in {crc16_bits(BitXor(crc, data[i] * 256), 8)} |->
            crc16_from(next, data, i + 1)])
crc16(data) == crc16_from(65535, data, 1)

\* CardData::to_bytes: the fields of CardData_to_bytes laid out in the
\* record's 32 bytes, the CRC of the first 30 in the last two
to_bytes(c) ==
    With([f \in {CardData_to_bytes(c)} |->
    With([out \in {<<84, 84, 1, 4>> \o uid_bytes(f.uid) \o <<0, 0, 0, 0>>
                   \o u32_to_le_bytes(f.balance) \o <<f.status, 0>>
                   \o u16_to_le_bytes(f.entry_station)
                   \o u16_to_le_bytes(f.last_route)
                   \o <<f.last_direction, 0>>
                   \o u16_to_le_bytes(f.last_board)
                   \o u16_to_le_bytes(f.last_alight) \o <<0, 0>>} |->
        out \o u16_to_le_bytes(crc16(out))])])

CardStatus_from_u8(value) ==
    CASE value = 0 -> Some("Idle") [] value = 1 -> Some("InTrip")
      [] value = 2 -> Some("Blocked") [] OTHER -> None

decode_optional_u16(b0, b1) ==
    IF u16_from_le_bytes(b0, b1) = EMPTY_ID THEN None
    ELSE Some(u16_from_le_bytes(b0, b1))

decode_direction(value) ==
    CASE value = 0 -> Some("Up") [] value = 1 -> Some("Down") [] OTHER -> None

CardData_Err(err) == [ok |-> FALSE, data |-> CardData_new(""), err |-> err]

\* CardData::from_bytes_verbose on the bytes; data[i] of the code is
\* data[i + 1] here
from_bytes_verbose(data) ==
    IF Len(data) < 32 THEN CardData_Err("bad_length")
    ELSE IF SubSeq(data, 1, 2) # <<84, 84>> THEN CardData_Err("bad_magic")
    ELSE IF data[3] # 1 THEN CardData_Err("bad_version")
    ELSE IF data[4] # 4 THEN CardData_Err("bad_uid_len")
    ELSE IF u16_from_le_bytes(data[31], data[32]) # crc16(SubSeq(data, 1, 30))
    THEN CardData_Err("bad_crc")
    ELSE IF CardStatus_from_u8(data[17]) = None THEN CardData_Err("unknown_status")
    ELSE [ok |-> TRUE, err |-> "",
          data |-> [uid |-> uid_from_bytes(SubSeq(data, 5, 8)),
                    balance_cents |-> u32_from_le_bytes(SubSeq(data, 13, 16)),
                    status |-> Unwrap(CardStatus_from_u8(data[17])),
                    entry_station_id |-> decode_optional_u16(data[19], data[20]),
                    last_route_id |-> decode_optional_u16(data[21], data[22]),
                    last_direction |-> decode_direction(data[23]),
                    last_board_station_id |-> decode_optional_u16(data[25], data[26]),
                    last_alight_station_id |-> decode_optional_u16(data[27], data[28])]]

(* ------------------------------------------------------------------ *)
(* SpecCard: from_bytes_verbose applied to the bytes of to_bytes       *)
(* ------------------------------------------------------------------ *)
\* present ids at both ends of the u16 range, and an absent one
OptionalIds == {None, Some(0), Some(U16Max)}

CardSamples ==
    [uid : {"0A0B0C01", "0A0B0C03"},
     balance_cents : {0, 1000, U32Max},
     status : {"Idle", "InTrip", "Blocked"},
     entry_station_id : OptionalIds,
     last_route_id : {None, Some(101)},
     last_direction : {None, Some("Up"), Some("Down")},
     last_board_station_id : {None, Some(1)},
     last_alight_station_id : {None, Some(U16Max - 1)}]

ParseWritten ==
    /\ last = NoCall
    /\ \E c \in CardSamples :
          \E bytes \in {to_bytes(c)} :
             last' = [op |-> "from_bytes_verbose", card |-> c, bytes |-> bytes,
                      ret |-> from_bytes_verbose(bytes)]
    /\ UNCHANGED <<state, clock, history, debounce, upload_rx, buffer, card_rx, cmd_rx, net_cmd_rx, proc, net, lock, reader>>

CardNext == ParseWritten

SpecCard == FloodInit /\ [][CardNext]_vars

(* ------------------------------------------------------------------ *)
(* C20                                                                 *)
(* ------------------------------------------------------------------ *)
\* C20: for every CardData value, from_bytes_verbose of the bytes of
\* to_bytes succeeds and returns a value whose every field equals the
\* original's.
C20_CardRoundTrip ==
    last.op = "from_bytes_verbose" =>
        /\ last.ret.ok
        /\ last.ret.data = last.card

\* an id field that holds the reserved value EMPTY_ID as a present id
HoldsEmptyId(c) ==
    Some(EMPTY_ID) \in {c.entry_station_id, c.last_route_id,
                        c.last_board_station_id, c.last_alight_station_id}

\* What the code does deliver: the bytes always parse, and the fields come
\* back unless a present id is EMPTY_ID, which comes back absent.
CardRoundTripBelowEmptyId ==
    last.op = "from_bytes_verbose" =>
        /\ last.ret.ok
        /\ ~HoldsEmptyId(last.card) => last.ret.data = last.card

(* ------------------------------------------------------------------ *)
(* SpecRoute: route configurations of every shape synced between taps  *)
(* ------------------------------------------------------------------ *)
\* station lists the backend may send: in sequence order, out of order with
\* a station of Stations3 under another name, one station with the largest
\* id a u16 holds, and none
StationsUnordered == << [id |-> 5, name |-> "T5", sequence |-> 2],
                        [id |-> 2, name |-> "T2", sequence |-> 1] >>
StationsLargestId == << [id |-> U16Max, name |-> "S65535", sequence |-> 1] >>
StationLists == {Stations3, StationsUnordered, StationsLargestId, <<>>}

RouteConfigs ==
    {[route_id |-> route_id, fare_type |-> "Distance", tap_mode |-> "TapInOut",
      stations |-> stations, fares |-> <<DefaultFareRule>>] :
        route_id \in {101, 102}, stations \in StationLists}

\* sync_config: a route configuration arrives
RouteSync ==
    /\ \E config \in RouteConfigs :
          /\ state' = update_route_config(state, config, clock)
          /\ last' = [op |-> "update_route_config", config |-> config,
                      before |-> state.route_state,
                      after |-> state'.route_state]
    /\ UNCHANGED <<clock, history, debounce, upload_rx, buffer, card_rx, cmd_rx, net_cmd_rx, proc, net, lock, reader>>

\* web_server.rs: the driver moves the bus to the next or the previous station
RouteStep ==
    /\ \E forward \in BOOLEAN :
          /\ step_station(state, forward) # state
          /\ state' = step_station(state, forward)
          /\ last' = [op |-> "step_station", forward |-> forward]
    /\ UNCHANGED <<clock, history, debounce, upload_rx, buffer, card_rx, cmd_rx, net_cmd_rx, proc, net, lock, reader>>

RouteTap ==
    /\ state.last_tap_nonce < RouteMaxTaps
    /\ \E card_id \in {"0A0B0C01", "0A0B0C02"} :
          LET card == IdleCard(card_id, 1000)
              detected == [card_id |-> card_id, tap_time |-> clock,
                           card_data |-> card.card_data]
          IN \E r \in {handle_card(state, detected, clock, NowMs)} :
             /\ state' = r.self
             /\ last' = [op |-> "tap", detected |-> detected, now |-> clock,
                         decision |-> r.ret, route_state |-> state.route_state]
    /\ UNCHANGED <<clock, history, debounce, upload_rx, buffer, card_rx, cmd_rx, net_cmd_rx, proc, net, lock, reader>>

RouteNext == RouteSync \/ RouteStep \/ RouteTap

SpecRoute == FloodInit /\ [][RouteNext]_vars

(* ------------------------------------------------------------------ *)
(* C21                                                                 *)
(* ------------------------------------------------------------------ *)
\* the on-card invariant, on the encoded fields of a record
InTripHasEntry(fields) ==
    fields.status = CardStatus_as_u8("InTrip") => fields.entry_station # EMPTY_ID

\* C21: every card record the decision engine emits in a write-request
\* satisfies the on-card invariant: when the encoded status is in-trip, the
\* encoded entry station id is present (not 0xFFFF), at every route state
\* and station id.
C21_WrittenInTripHasEntry ==
    (last.op = "tap" /\ IsSome(last.decision.write_request))
        => InTripHasEntry(Unwrap(last.decision.write_request).card_data)

\* What the code does deliver: the invariant for every tap at a station
\* whose id is not the reserved EMPTY_ID.
WrittenInTripHasEntryBelowEmptyId ==
    (last.op = "tap" /\ IsSome(last.decision.write_request)
     /\ last.route_state.station_id # EMPTY_ID)
        => InTripHasEntry(Unwrap(last.decision.write_request).card_data)

(* ------------------------------------------------------------------ *)
(* C30                                                                 *)
(* ------------------------------------------------------------------ *)
StationIds(config) == {config.stations[i].id : i \in 1..Len(config.stations)}

\* the first station of the config with the smallest sequence number
FirstStation(config) ==
    config.stations[CHOOSE j \in 1..Len(config.stations) :
        /\ \A k \in 1..Len(config.stations) :
              config.stations[j].sequence <= config.stations[k].sequence
        /\ \A k \in 1..(j - 1) :
              config.stations[k].sequence > config.stations[j].sequence]

\* the name the config gives to a station id
NameIn(config, id) ==
    config.stations[CHOOSE j \in 1..Len(config.stations) :
        /\ config.stations[j].id = id
        /\ \A k \in 1..(j - 1) : config.stations[k].id # id].name

\* the route state after a sync that keeps the station, and after one that
\* snaps to the first station or to station 0
StationKept(before, config, after) ==
    /\ after.station_id = before.station_id
    /\ after.station_name = NameIn(config, before.station_id)
StationSnapped(config, after) ==
    IF config.stations = <<>> THEN after.station_id = 0
    ELSE after.station_id = FirstStation(config).id

\* C30: update_route_config keeps the current station id, refreshing only
\* its name, when the id is one of the new config's stations; otherwise the
\* current station becomes the one with the smallest sequence number, or id
\* 0 when the config has no stations. The route id is the config's afterwards.
C30_StationKeptOrSnapped ==
    last.op = "update_route_config" =>
        /\ last.after.route_id = last.config.route_id
        /\ IF last.before.station_id \in StationIds(last.config)
           THEN StationKept(last.before, last.config, last.after)
           ELSE StationSnapped(last.config, last.after)

\* What the code does deliver: the station is kept only when the route id
\* stays the same as well; a change of route id snaps the station.
StationKeptOnSameRoute ==
    last.op = "update_route_config" =>
        /\ last.after.route_id = last.config.route_id
        /\ last.after.direction = last.before.direction
        /\ IF last.before.station_id \in StationIds(last.config)
              /\ last.before.route_id = last.config.route_id
           THEN StationKept(last.before, last.config, last.after)
           ELSE StationSnapped(last.config, last.after)

(* ------------------------------------------------------------------ *)
(* C22                                                                 *)
(* ------------------------------------------------------------------ *)
\* the upload records handed over by the processor and not uploaded yet
PendingUploads == Len(upload_rx) + Len(buffer)

\* C22: the upload records emitted by the processor and not yet uploaded
\* (in the upload channel or in the network loop's batch buffer) are never
\* more than the event buffer's capacity, tap_cache_max, and the event buffer
\* never holds more than tap_cache_max events.
C22_PendingWithinCapacity ==
    /\ PendingUploads <= state.settings.tap_cache_max
    /\ Len(state.tap_cache.events) <= state.settings.tap_cache_max

\* What the code does deliver: the event buffer stays within its capacity.
EventBufferWithinCapacity ==
    Len(state.tap_cache.events) <= state.settings.tap_cache_max

(* ------------------------------------------------------------------ *)
(* C23                                                                 *)
(* ------------------------------------------------------------------ *)
\* a step that queues a snapshot
SnapshotQueued == state'.card_state_cache # state.card_state_cache

\* C23: a snapshot of a card is queued in the card-state snapshot buffer
\* only by the write-result that reports its write-back successful, never
\* while the result of the write is a failure or has not arrived.
C23_SnapshotAfterWriteResult ==
    [][SnapshotQueued => (last'.op = "write_result" /\ last'.result = 1)]_vars

\* What the code does deliver: a snapshot is queued by the tap that returns
\* the write-request, before any write-result.
SnapshotQueuedByTap ==
    [][SnapshotQueued => (TapStep /\ IsSome(last'.decision.write_request))]_vars

(* ------------------------------------------------------------------ *)
(* C24                                                                 *)
(* ------------------------------------------------------------------ *)
\* tap i is an earlier tap of the card of tap j, no more than the debounce
\* window before it
InWindowBefore(i, j) ==
    /\ i < j
    /\ history[i].card_id = history[j].card_id
    /\ history[j].now <= history[i].now + state.settings.debounce_window_secs

\* C24, as the claim states it: a tap is rejected as tap-too-fast only if a
\* tap of the same card was accepted within the preceding debounce window; a
\* tap that passed the filter and was rejected for another reason does not
\* make a later tap of the card too fast.
C24_TooFastOnlyAfterAccepted ==
    \A j \in 1..Len(history) :
        TooFast(history[j])
            => \E i \in 1..Len(history) :
                  InWindowBefore(i, j) /\ Accepted(history[i].decision)

\* C24, amended: a tap is rejected as tap-too-fast only if a tap of the same
\* card passed the debounce filter within the preceding debounce window,
\* whether that tap was then accepted or rejected for another reason.
C24_TooFastOnlyAfterPassed ==
    \A j \in 1..Len(history) :
        TooFast(history[j])
            => \E i \in 1..Len(history) :
                  InWindowBefore(i, j) /\ history[i].passed

\* a tap-out rejected for insufficient balance, and the card's next tap one
\* second later rejected as too fast with no accepted tap in its window
C24_Witness ==
    \E i, j \in 1..Len(history) :
        /\ InWindowBefore(i, j)
        /\ history[i].passed
        /\ history[i].message = "insufficient_balance"
        /\ TooFast(history[j])
        /\ ~\E k \in 1..Len(history) :
              InWindowBefore(k, j) /\ Accepted(history[k].decision)

(* ------------------------------------------------------------------ *)
(* C25                                                                 *)
(* ------------------------------------------------------------------ *)
\* the unexpired cached backend profile of the card says blocked or lost
ProfileBlockedOrLost(s, card_id, now_ms) ==
    /\ IsSome(cached_profile(s, card_id, now_ms))
    /\ Unwrap(cached_profile(s, card_id, now_ms)).status
          \in {Some("blocked"), Some("lost")}

\* a tap that goes down the normal path: neither register nor recharge
\* mode is active when it is handled
NormalPathTap ==
    /\ TapStep
    /\ last'.op = "tap"
    /\ ~IsSome(state.register_mode)
    /\ ~IsSome(state.recharge_mode)

\* C25, as the claim states it: on the normal tap path a tap of a card whose
\* unexpired cached backend profile is blocked or lost never gets an accepted
\* ACK, whether the card data parsed or the card was synthesised from the
\* cached profile.
C25_BlockedProfileNeverAccepted ==
    [][(NormalPathTap /\ ProfileBlockedOrLost(state, last'.detected.card_id, NowMs))
          => ~Accepted(last'.decision)]_vars

\* the synthesised-card half of C25: when the card data did not parse, the
\* blocked or lost profile rejects the tap
BlockedProfileRejectsUnparsed ==
    [][(NormalPathTap /\ ProfileBlockedOrLost(state, last'.detected.card_id, NowMs)
          /\ ~ParsedCard(last'.detected))
          => Rejected(last'.decision)]_vars

(* ------------------------------------------------------------------ *)
(* C26                                                                 *)
(* ------------------------------------------------------------------ *)
\* the network task takes a card lookup off its queue; the profile that a
\* successful lookup applies here is an active student's, never blocked or lost
LookupTaken ==
    /\ net_cmd_rx # <<>>
    /\ Head(net_cmd_rx).kind = "LookupCard"
    /\ net_cmd_rx' = Tail(net_cmd_rx)

\* C26: applying a card-lookup result never overrides an error passenger
\* tone: when the tone is error before a profile that is neither blocked nor
\* lost is applied, it is still error afterwards, whatever the order of tap
\* processing and lookup completion.
C26_LookupKeepsErrorTone ==
    [][(LookupTaken /\ state.last_passenger_tone = "Error")
          => state'.last_passenger_tone = "Error"]_vars

(* ------------------------------------------------------------------ *)
(* Write-backs: taps on every writing path (trip, recharge, register,  *)
(* blacklist flip) and the reader's write results, each step recording *)
(* the gateway state it started from                                   *)
(* ------------------------------------------------------------------ *)
WriteInit ==
    /\ state = update_blacklist(
                   update_route_config(GatewayState_bootstrap(ScaledSettings),
                                       ConfigInOut, 0),
                   <<"0A0B0C02">>, 0)
    /\ Boot(ScaledSettings)

WriteCards ==
    {IdleCard("0A0B0C01", 1000),
     IdleCard("0A0B0C01", U32Max - 100),
     [card_id |-> "0A0B0C01",
      card_data |-> [kind |-> "ok", data |-> CardRecord("0A0B0C01", 1000, "InTrip")]],
     [card_id |-> "0A0B0C01", card_data |-> [kind |-> "short"]],
     IdleCard("0A0B0C02", 1000)}

WriteProfiles == {Profile(Some("normal"), Some("active"), Some(U32Max - 600)),
                  Profile(Some("normal"), Some("lost"), Some(1000))}

WrTick ==
    /\ clock + ScaledWindowSecs + 1 <= WriteMaxClock
    /\ clock' = clock + ScaledWindowSecs + 1
    /\ UNCHANGED <<state, last, history, debounce, upload_rx, buffer, card_rx, cmd_rx, net_cmd_rx, proc, net, lock, reader>>

WrTap ==
    /\ state.last_tap_nonce < WriteMaxTaps
    /\ \E card \in WriteCards :
          LET detected == [card_id |-> card.card_id, tap_time |-> clock,
                           card_data |-> card.card_data]
          IN \E r \in {handle_card(state, detected, clock, NowMs)} :
             /\ state' = r.self
             /\ last' = [op |-> "tap", detected |-> detected, now |-> clock,
                         decision |-> r.ret, before |-> state]
    /\ UNCHANGED <<clock, history, debounce, upload_rx, buffer, card_rx, cmd_rx, net_cmd_rx, proc, net, lock, reader>>

WrLookup ==
    /\ state.last_tap_nonce = 0
    /\ \E profile \in WriteProfiles :
          /\ state' = apply_card_profile(state, "0A0B0C01", profile, NowMs)
          /\ last' = [op |-> "lookup", before |-> state]
    /\ UNCHANGED <<clock, history, debounce, upload_rx, buffer, card_rx, cmd_rx, net_cmd_rx, proc, net, lock, reader>>

WrSetRecharge ==
    /\ \E amount_cents \in {500, MAX_RECHARGE_CENTS} :
          /\ state' = set_recharge_mode(state, amount_cents, NowMs)
          /\ last' = [op |-> "set_recharge", before |-> state]
    /\ UNCHANGED <<clock, history, debounce, upload_rx, buffer, card_rx, cmd_rx, net_cmd_rx, proc, net, lock, reader>>

WrSetRegister ==
    /\ state' = set_register_mode(state, NowMs)
    /\ last' = [op |-> "set_register", before |-> state]
    /\ UNCHANGED <<clock, history, debounce, upload_rx, buffer, card_rx, cmd_rx, net_cmd_rx, proc, net, lock, reader>>

\* the reader reports the outcome of a write; it may report one the gateway
\* is not waiting for
WrResult ==
    /\ \E result \in {0, 1} :
          /\ state' = handle_write_result(state, result, NowMs)
          /\ last' = [op |-> "write_result", result |-> result, before |-> state]
    /\ UNCHANGED <<clock, history, debounce, upload_rx, buffer, card_rx, cmd_rx, net_cmd_rx, proc, net, lock, reader>>

WriteNext ==
    \/ WrTick
    \/ WrTap
    \/ WrLookup
    \/ WrSetRecharge
    \/ WrSetRegister
    \/ WrResult

SpecWrite == WriteInit /\ [][WriteNext]_vars

(* ------------------------------------------------------------------ *)
(* C27                                                                 *)
(* ------------------------------------------------------------------ *)
\* the last step was handle_write_result with this result
WriteResultWas(result) == last.op = "write_result" /\ last.result = result

\* C27: handle_write_result with a success result sets the displayed balance
\* to the balance saved by the most recent write-request and consumes that
\* saved balance; it clears recharge mode if and only if the saved write
\* context was recharge; it leaves the passenger tone and message unchanged.
\* The saved balance is the balance of the write-request the tap returned.
C27_WriteSuccessPromotesBalance ==
    /\ (last.op = "tap" /\ IsSome(last.decision.write_request))
          => /\ state.last_written_balance_cents =
                    Some(Unwrap(last.decision.write_request).card_data.balance)
             /\ IsSome(state.last_write_context)
    /\ WriteResultWas(1)
          => /\ IsSome(last.before.last_written_balance_cents)
                    => state.last_balance_cents = last.before.last_written_balance_cents
             /\ ~IsSome(last.before.last_written_balance_cents)
                    => state.last_balance_cents = last.before.last_balance_cents
             /\ state.last_written_balance_cents = None
             /\ last.before.last_write_context = Some("Recharge")
                    => state.recharge_mode = None
             /\ last.before.last_write_context # Some("Recharge")
                    => state.recharge_mode = last.before.recharge_mode
             /\ state.last_passenger_tone = last.before.last_passenger_tone
             /\ state.last_passenger_message = last.before.last_passenger_message

\* a recharge of 500 onto a card holding 1000 is reported written: the
\* display moves from 1000 to 1500 and recharge mode ends
C27_Witness ==
    /\ WriteResultWas(1)
    /\ last.before.last_write_context = Some("Recharge")
    /\ IsSome(last.before.recharge_mode)
    /\ last.before.last_balance_cents = Some(1000)
    /\ state.last_balance_cents = Some(1500)
    /\ state.recharge_mode = None

\* a successful write of another context while recharge mode is active
\* leaves recharge mode active
WriteSuccessKeepsRechargeMode ==
    /\ WriteResultWas(1)
    /\ IsSome(last.before.last_write_context)
    /\ last.before.last_write_context # Some("Recharge")
    /\ IsSome(state.recharge_mode)

(* ------------------------------------------------------------------ *)
(* C28                                                                 *)
(* ------------------------------------------------------------------ *)
WriteFailedMessage(context) ==
    IF context = Some("Recharge") THEN "recharge_write_failed"
    ELSE IF context = Some("Register") THEN "register_write_failed"
    ELSE IF context = Some("Blacklist") THEN "blacklist_write_failed"
    ELSE "write_failed"

\* C28: handle_write_result with a failure result clears the saved balance
\* and the saved write context, sets the passenger tone to error with the
\* message chosen by the context (recharge, register, blacklist, otherwise
\* generic), and leaves the displayed balance, the recharge and register
\* modes, the active-trip cache and the event buffer unchanged.
C28_WriteFailureReported ==
    WriteResultWas(0)
        => /\ state.last_written_balance_cents = None
           /\ state.last_write_context = None
           /\ state.last_passenger_tone = "Error"
           /\ state.last_passenger_message =
                  WriteFailedMessage(last.before.last_write_context)
           /\ state.last_balance_cents = last.before.last_balance_cents
           /\ state.recharge_mode = last.before.recharge_mode
           /\ state.register_mode = last.before.register_mode
           /\ state.active_trips = last.before.active_trips
           /\ state.tap_cache = last.before.tap_cache

\* a recharge write is reported failed: the tone turns from normal to error
\* with the recharge message, the saved balance is gone, and recharge mode
\* and the displayed balance stay
C28_Witness ==
    /\ WriteResultWas(0)
    /\ last.before.last_write_context = Some("Recharge")
    /\ last.before.last_passenger_tone = "Normal"
    /\ IsSome(last.before.last_written_balance_cents)
    /\ state.last_passenger_message = "recharge_write_failed"
    /\ IsSome(state.recharge_mode)
    /\ state.last_balance_cents = Some(1000)

(* ------------------------------------------------------------------ *)
(* C29                                                                 *)
(* ------------------------------------------------------------------ *)
\* the last step was a tap handled while recharge mode was active, and it
\* was accepted
RechargeAccepted ==
    /\ last.op = "tap"
    /\ IsSome(refresh_modes(last.before, last.now * 1000).recharge_mode)
    /\ Accepted(last.decision)

\* the balance the recharge starts from: the one read from the card, or the
\* cached profile's when the card data is unparseable
RechargeBase ==
    IF ParsedCard(last.detected) THEN last.detected.card_data.data.balance_cents
    ELSE With([p \in {cached_profile(last.before, last.detected.card_id,
                                     last.now * 1000)} |->
             IF IsSome(p) /\ IsSome(Unwrap(p).balance_cents)
             THEN Unwrap(Unwrap(p).balance_cents) ELSE 0])

RechargeAmount == Unwrap(last.before.recharge_mode).amount_cents

\* written = min(base + amount, U32Max), stated without forming the sum
IsCappedSum(written, base, amount) ==
    /\ written <= U32Max
    /\ written - base <= amount
    /\ written - base = amount \/ written = U32Max

\* C29: for every tap accepted in recharge mode with amount A on a card
\* whose balance used for the tap is B (read from the card, or from the
\* cached profile when the card is unparseable), the balance in the
\* write-request is min(B + A, 2^32 - 1), the card status was idle, and the
\* Decision has no tap event, no upload record and no registration.
C29_RechargeWritesCappedSum ==
    RechargeAccepted
        => /\ IsSome(last.decision.write_request)
           /\ IsCappedSum(Unwrap(last.decision.write_request).card_data.balance,
                          RechargeBase, RechargeAmount)
           /\ ParsedCard(last.detected)
                 => last.detected.card_data.data.status = "Idle"
           /\ Unwrap(last.decision.write_request).card_data.status
                 = CardStatus_as_u8("Idle")
           /\ last.decision.event = None
           /\ last.decision.upload_record = None
           /\ last.decision.registration = None

\* a recharge of the largest amount onto an unparseable card whose cached
\* profile holds U32Max - 600: the written balance is capped at U32Max
C29_Witness ==
    /\ RechargeAccepted
    /\ ~ParsedCard(last.detected)
    /\ RechargeBase = U32Max - 600
    /\ RechargeAmount = MAX_RECHARGE_CENTS
    /\ Unwrap(last.decision.write_request).card_data.balance = U32Max

\* a recharge below the cap, onto a card that parsed: 1000 + 500
RechargeBelowCap ==
    /\ RechargeAccepted
    /\ ParsedCard(last.detected)
    /\ RechargeBase = 1000
    /\ Unwrap(last.decision.write_request).card_data.balance = 1500

(* ------------------------------------------------------------------ *)
(* Fare estimation: a route config is synced, then estimate_trip_fare  *)
(* is called once on a pair of its stations                            *)
(* ------------------------------------------------------------------ *)
\* the elements of a sequence
Range(q) == {q[i] : i \in DOMAIN q}

\* station i has id 10 + i and sequence number i, listed last to first
FareStations ==
    [i \in 1..FareMaxStations |->
        [id |-> 10 + (FareMaxStations + 1 - i), name |-> "S",
         sequence |-> FareMaxStations + 1 - i]]

\* the default rule of a route: no start and no end station
FareDefaultRule(segment_count, extra_price) ==
    [base_price |-> 200, segment_count |-> segment_count,
     extra_price |-> extra_price, start_station |-> None, end_station |-> None]

\* a cheaper rule naming one exact pair of stations
FarePairRule ==
    [base_price |-> 100, segment_count |-> None, extra_price |-> None,
     start_station |-> Some(11), end_station |-> Some(12)]

FareConfigs ==
    {[route_id |-> 101, fare_type |-> ft, tap_mode |-> "TapInOut",
      stations |-> FareStations, fares |-> fares] :
        ft \in {"Segment", "Distance"},
        fares \in UNION {{<<FareDefaultRule(sc, ep)>>,
                          <<FarePairRule, FareDefaultRule(sc, ep)>>} :
                            sc \in {None, Some(0), Some(1), Some(2)},
                            ep \in {None, Some(0 - 50), Some(0), Some(100)}}}

FareSync ==
    /\ ~IsSome(state.config_cache.route)
    /\ \E config \in FareConfigs : state' = update_route_config(state, config, clock)
    /\ UNCHANGED <<clock, last, history, debounce, upload_rx, buffer, card_rx, cmd_rx, net_cmd_rx, proc, net, lock, reader>>

FareEstimate ==
    /\ IsSome(state.config_cache.route)
    /\ last = NoCall
    /\ \E start, end \in {st.id : st \in Range(FareStations)} :
          last' = [op |-> "estimate_trip_fare", start |-> start, end |-> end,
                   ret |-> estimate_trip_fare(state, start, end)]
    /\ UNCHANGED <<state, clock, history, debounce, upload_rx, buffer, card_rx, cmd_rx, net_cmd_rx, proc, net, lock, reader>>

FareNext ==
    \/ FareSync
    \/ FareEstimate

SpecFare == FloodInit /\ [][FareNext]_vars

(* ------------------------------------------------------------------ *)
(* C31                                                                 *)
(* ------------------------------------------------------------------ *)
\* the rules of the cached config that name no start and no end station
DefaultRules ==
    {f \in Range(Unwrap(state.config_cache.route).fares) :
        f.start_station = None /\ f.end_station = None}

\* some rule of the cached config names exactly this pair
PairNamed(start, end) ==
    \E f \in Range(Unwrap(state.config_cache.route).fares) :
        f.start_station = Some(start) /\ f.end_station = Some(end)

\* |seq(start) - seq(end)| over the stations of the cached config
SeqDiff(start, end) ==
    LET seq(id) == (CHOOSE st \in Range(Unwrap(state.config_cache.route).stations) :
                        st.id = id).sequence
    IN IF seq(start) >= seq(end) THEN seq(start) - seq(end) ELSE seq(end) - seq(start)

\* the fare the rule prescribes for a trip of diff segments
RuleFare(rule, diff) ==
    LET included == IF IsSome(rule.segment_count) THEN Unwrap(rule.segment_count) ELSE 1
        extra == IF IsSome(rule.extra_price) THEN Unwrap(rule.extra_price) ELSE 0
    IN IF diff <= included \/ extra <= 0 THEN rule.base_price
       ELSE rule.base_price + extra * (diff - included)

\* C31: for segment and distance fare types, with a default rule of positive
\* base price and no rule naming the exact start/end pair, estimate_trip_fare
\* on non-zero station ids of the config returns base when the sequence
\* difference is within the included segments (default 1) or extra <= 0, and
\* base + extra * (diff - included) otherwise; never below base, never negative.
C31_EstimateFollowsDefaultRule ==
    (last.op = "estimate_trip_fare" /\ ~PairNamed(last.start, last.end))
        => \A rule \in DefaultRules :
              rule.base_price > 0
                 => /\ last.ret = Some(RuleFare(rule, SeqDiff(last.start, last.end)))
                    /\ Unwrap(last.ret) >= rule.base_price
                    /\ Unwrap(last.ret) >= 0

\* three segments with one included at 1.00 extra each: 2.00 + 2 * 1.00
C31_Witness ==
    /\ last.op = "estimate_trip_fare"
    /\ ~PairNamed(last.start, last.end)
    /\ SeqDiff(last.start, last.end) = 3
    /\ \E rule \in DefaultRules :
          rule.segment_count = Some(1) /\ rule.extra_price = Some(100)
    /\ last.ret = Some(400)

(* ------------------------------------------------------------------ *)
(* SpecNetLive: the network loop against a backend that fails for a    *)
(* while and answers 2xx from some point on; the loop is scheduled     *)
(* fairly                                                              *)
(* ------------------------------------------------------------------ *)
LiveInit ==
    /\ state = GatewayState_bootstrap(FloodSettings)
    /\ clock = 0
    /\ last = NoCall
    /\ history = <<>>
    /\ debounce = TapDebounce_new(FloodSettings.debounce_window_secs, DebounceMaxLen)
    /\ upload_rx = <<>>
    /\ buffer = <<>>
    /\ card_rx = <<>>
    /\ cmd_rx = <<>>
    /\ net_cmd_rx = <<>>
    /\ proc = [pc |-> "recv"]
    /\ net = [pc |-> "idle", syncs |-> 0, backend |-> "failing"]
    /\ lock = "free"
    /\ reader = FrameReader_new

\* what the backend answers: anything while it fails, 2xx once it is back
LiveOutcomes ==
    IF net.backend = "ok" THEN {o \in HttpOutcomes : Is2xx(o)} ELSE HttpOutcomes

LiveFlush(buf) ==
    \E outcome \in LiveOutcomes :
        \E f \in {flush_batch(state, buf, outcome)} :
           /\ state' = f.state
           /\ buffer' = f.buffer
           /\ last' = [op |-> "flush", before |-> buf, outcome |-> outcome,
                       ret |-> f.ret]

\* the backend comes back for good
BackendRecovers ==
    /\ net.backend = "failing"
    /\ net' = [net EXCEPT !.backend = "ok"]
    /\ UNCHANGED <<state, clock, last, history, debounce, upload_rx, buffer, card_rx, cmd_rx, net_cmd_rx, proc, lock, reader>>

\* sync_config, one call: each fetch fails or succeeds on its own while the
\* backend fails; a failed fetch leaves the cache as it was and the loop goes on
LiveSync ==
    /\ net.syncs < LiveMaxSyncs
    /\ \E route_ok, blacklist_ok \in IF net.backend = "ok" THEN {TRUE} ELSE BOOLEAN :
          \E s1 \in {IF route_ok THEN update_route_config(state, ConfigSingle, clock)
                     ELSE state} :
          \E s2 \in {IF blacklist_ok THEN update_blacklist(s1, <<>>, clock) ELSE s1} :
             state' = update_backend_status(s2, route_ok \/ blacklist_ok)
    /\ net' = [net EXCEPT !.syncs = @ + 1]
    /\ UNCHANGED <<clock, last, history, debounce, upload_rx, buffer, card_rx, cmd_rx, net_cmd_rx, proc, lock, reader>>

\* spawn_network_loop: recv_timeout returns a record
LiveRecv ==
    /\ upload_rx # <<>>
    /\ upload_rx' = Tail(upload_rx)
    /\ LET buf == Vec_push(buffer, Head(upload_rx))
       IN IF Len(buf) >= BatchSize THEN LiveFlush(buf)
          ELSE /\ buffer' = buf
               /\ last' = [op |-> "recv"]
               /\ UNCHANGED state
    /\ UNCHANGED <<clock, history, debounce, card_rx, cmd_rx, net_cmd_rx, proc, net, lock, reader>>

\* spawn_network_loop: recv_timeout times out, five seconds after the last
\* record arrived; a failed flush does not leave the loop
LiveTimeout ==
    /\ upload_rx = <<>>
    /\ buffer # <<>>
    /\ LiveFlush(buffer)
    /\ UNCHANGED <<clock, history, debounce, upload_rx, card_rx, cmd_rx, net_cmd_rx, proc, net, lock, reader>>

LiveNext ==
    \/ NetTap
    \/ BackendRecovers
    \/ LiveSync
    \/ LiveRecv
    \/ LiveTimeout

SpecNetLive ==
    /\ LiveInit
    /\ [][LiveNext]_vars
    /\ WF_vars(BackendRecovers)
    /\ WF_vars(LiveRecv)
    /\ WF_vars(LiveTimeout)

(* ------------------------------------------------------------------ *)
(* C32                                                                 *)
(* ------------------------------------------------------------------ *)
RecordIds == {<<GatewayId, now, seq>> : now \in 0..NetMaxClock, seq \in 0..NetMaxTaps}

\* the record is in the upload channel or in the network loop's buffer
PendingUpload(id) ==
    \E rec \in Range(upload_rx) \cup Range(buffer) : rec.record_id = id

\* the last step was a batch POST holding the record, answered 2xx
UploadedNow(id) ==
    /\ last.op = "flush"
    /\ Is2xx(last.outcome)
    /\ last.ret = "Ok"
    /\ \E rec \in Range(last.before) : rec.record_id = id

\* C32: the network loop never halts on an upload failure, and every upload
\* record it is handed is eventually part of a successful batch POST, given a
\* fairly scheduled loop and a backend that answers 2xx from some point on.
C32_EveryRecordUploaded ==
    \A id \in RecordIds : PendingUpload(id) ~> UploadedNow(id)

\* a batch larger than the batch size goes through: an earlier POST of these
\* records had failed and the loop kept them
C32_Witness ==
    /\ last.op = "flush"
    /\ Is2xx(last.outcome)
    /\ last.ret = "Ok"
    /\ Len(last.before) > BatchSize

(* ------------------------------------------------------------------ *)
(* SpecAnswer: the processor thread and the write-result thread. The   *)
(* write-requests sent to the reader wait in cmd_rx until the reader   *)
(* answers them, oldest first; taps go on being processed meanwhile    *)
(* ------------------------------------------------------------------ *)
\* spawn_processor_loop: a tap is handled and its write-request, if any, sent
AnswerTap ==
    /\ state.last_tap_nonce < WriteMaxTaps
    /\ \E card \in WriteCards :
          LET detected == [card_id |-> card.card_id, tap_time |-> clock,
                           card_data |-> card.card_data]
          IN \E r \in {handle_card(state, detected, clock, NowMs)} :
             /\ state' = r.self
             /\ last' = [op |-> "tap", detected |-> detected, now |-> clock,
                         decision |-> r.ret, before |-> state]
             /\ cmd_rx' = IF IsSome(r.ret.write_request)
                          THEN Append(cmd_rx,
                                      [request |-> Unwrap(r.ret.write_request),
                                       context |-> r.self.last_write_context,
                                       nonce |-> r.self.last_tap_nonce])
                          ELSE cmd_rx
             /\ history' = Append(history,
                    [op |-> "tap", nonce |-> r.self.last_tap_nonce,
                     card_id |-> card.card_id,
                     recharged |-> /\ Accepted(r.ret)
                                   /\ r.self.last_write_context = Some("Recharge")])
    /\ UNCHANGED <<clock, debounce, upload_rx, buffer, card_rx, net_cmd_rx, proc, net, lock, reader>>

\* spawn_write_result_loop: the reader's answer to its oldest write-request
AnswerResult ==
    /\ cmd_rx # <<>>
    /\ cmd_rx' = Tail(cmd_rx)
    /\ \E result \in {0, 1} :
          /\ state' = handle_write_result(state, result, NowMs)
          /\ last' = [op |-> "write_result", result |-> result,
                      answers |-> Head(cmd_rx), before |-> state]
          /\ history' = Append(history,
                 [op |-> "write_result", nonce |-> Head(cmd_rx).nonce,
                  result |-> result])
    /\ UNCHANGED <<clock, debounce, upload_rx, buffer, card_rx, net_cmd_rx, proc, net, lock, reader>>

\* the operator activates recharge mode
AnswerSetRecharge ==
    /\ Cardinality({i \in DOMAIN history : history[i].op = "set_recharge"})
          < AnswerMaxActivations
    /\ state' = set_recharge_mode(state, 500, NowMs)
    /\ last' = [op |-> "set_recharge", before |-> state]
    /\ history' = Append(history, [op |-> "set_recharge"])
    /\ UNCHANGED <<clock, debounce, upload_rx, buffer, card_rx, cmd_rx, net_cmd_rx, proc, net, lock, reader>>

AnswerNext ==
    \/ WrTick
    \/ AnswerSetRecharge
    \/ AnswerTap
    \/ AnswerResult

SpecAnswer == WriteInit /\ [][AnswerNext]_vars

(* ------------------------------------------------------------------ *)
(* C33                                                                 *)
(* ------------------------------------------------------------------ *)
\* C33: every write-result is handled with the write context and the saved
\* balance of the write-request it answers, whatever taps the processor
\* handled in between, and the balance displayed after a successful result
\* is the written balance of the card shown as last tapped.
C33_ResultHandledWithItsRequest ==
    last.op = "write_result"
        => /\ last.before.last_write_context = last.answers.context
           /\ last.before.last_written_balance_cents
                 = Some(last.answers.request.card_data.balance)
           /\ last.result = 1
                 => /\ state.last_card_id = last.answers.request.card_id
                    /\ state.last_balance_cents
                          = Some(last.answers.request.card_data.balance)

\* with no tap handled between a write-request and its answer, and a
\* context still saved, the answer is handled with its own request
AnswerAloneHandledWithItsRequest ==
    (last.op = "write_result"
       /\ last.before.last_tap_nonce = last.answers.nonce
       /\ IsSome(last.before.last_write_context))
        => /\ last.before.last_write_context = last.answers.context
           /\ last.before.last_written_balance_cents
                 = Some(last.answers.request.card_data.balance)

(* ------------------------------------------------------------------ *)
(* C34                                                                 *)
(* ------------------------------------------------------------------ *)
\* entry i of the history is a tap accepted as a recharge
Credited(i) == history[i].op = "tap" /\ history[i].recharged

\* the write of the tap of entry i was reported done
WriteSucceeded(i) ==
    \E k \in DOMAIN history :
        /\ history[k].op = "write_result"
        /\ history[k].result = 1
        /\ history[k].nonce = history[i].nonce

\* C34: one activation of recharge mode credits at most one card: once a tap
\* has been accepted as a recharge and its write succeeds, no other tap is
\* credited from the same activation, also when a second card is tapped
\* before the first write-result has been handled.
C34_OneCreditPerActivation ==
    \A i, j \in DOMAIN history :
        (i < j /\ Credited(i) /\ Credited(j) /\ WriteSucceeded(i))
            => \E m \in (i + 1)..(j - 1) : history[m].op = "set_recharge"

(* ------------------------------------------------------------------ *)
(* SpecSwitch: the operator changes route while cards are tapped; the  *)
(* config of the new route arrives with the sync the change requests   *)
(* ------------------------------------------------------------------ *)
\* GatewayState::update_route
update_route(s, route_id, station_id, station_name, direction) ==
    [s EXCEPT !.route_state = RouteState_new(route_id, station_id, station_name,
                                             direction)]

\* what the backend holds for a route: single tap, 2.00 on route 101 and
\* 3.00 on route 102
SwitchConfig(route_id) ==
    [route_id |-> route_id, fare_type |-> "Uniform", tap_mode |-> "SingleTap",
     stations |-> Stations3,
     fares |-> <<[DefaultFareRule EXCEPT !.base_price =
                     IF route_id = 101 THEN 200 ELSE 300]>>]

\* apply_action, DriverAction::SetRoute
SetRoute ==
    /\ Len(net_cmd_rx) < SwitchMaxCommands
    /\ \E route_id \in {101, 102} :
          /\ state' = update_route(state, route_id, 0, "unset",
                                   state.route_state.direction)
          /\ net_cmd_rx' = Append(net_cmd_rx,
                                  [kind |-> "SyncConfig", route_id |-> route_id])
          /\ last' = [op |-> "set_route", route_id |-> route_id]
    /\ UNCHANGED <<clock, history, debounce, upload_rx, buffer, card_rx, cmd_rx, proc, net, lock, reader>>

\* spawn_network_loop, NetCommand::SyncConfig: sync_config fetches the
\* config and the blacklist, each fetch failing or succeeding on its own
SwitchSync ==
    /\ net_cmd_rx # <<>>
    /\ net_cmd_rx' = Tail(net_cmd_rx)
    /\ \E route_ok, blacklist_ok \in BOOLEAN :
          \E s1 \in {IF route_ok
                     THEN update_route_config(state,
                              SwitchConfig(Head(net_cmd_rx).route_id), clock)
                     ELSE state} :
          \E s2 \in {IF blacklist_ok THEN update_blacklist(s1, <<>>, clock) ELSE s1} :
             /\ state' = update_backend_status(s2, route_ok \/ blacklist_ok)
             /\ last' = [op |-> "sync_config", ok |-> route_ok]
    /\ UNCHANGED <<clock, history, debounce, upload_rx, buffer, card_rx, cmd_rx, proc, net, lock, reader>>

SwitchTap ==
    /\ state.last_tap_nonce < SwitchMaxTaps
    /\ \E card_id \in {"0A0B0C01", "0A0B0C02"} :
          LET card == IdleCard(card_id, 1000)
              detected == [card_id |-> card_id, tap_time |-> clock,
                           card_data |-> card.card_data]
          IN \E r \in {handle_card(state, detected, clock, NowMs)} :
             /\ state' = r.self
             /\ last' = [op |-> "tap", detected |-> detected, now |-> clock,
                         decision |-> r.ret, before |-> state]
    /\ UNCHANGED <<clock, history, debounce, upload_rx, buffer, card_rx, cmd_rx, net_cmd_rx, proc, net, lock, reader>>

SwitchNext ==
    \/ SetRoute
    \/ SwitchSync
    \/ SwitchTap

SpecSwitch == FloodInit /\ [][SwitchNext]_vars

(* ------------------------------------------------------------------ *)
(* C35                                                                 *)
(* ------------------------------------------------------------------ *)
\* the last step was a tap accepted on the normal path with a route config
\* in the cache
PricedTap ==
    /\ last.op = "tap"
    /\ Accepted(last.decision)
    /\ IsSome(last.decision.event)
    /\ IsSome(last.before.config_cache.route)

\* C35: every tap accepted on the normal path is priced with the route
\* config of the route it is recorded on: the route id of its tap event and
\* of its upload record is the route id of the cached config used for its
\* tap mode and fare, also between a set-route action and the completion of
\* the config sync it requests.
C35_PricedOnRecordedRoute ==
    PricedTap
        => /\ Unwrap(last.decision.event).route_id
                 = Unwrap(last.before.config_cache.route).route_id
           /\ Unwrap(last.decision.upload_record).route_id
                 = Some(Unwrap(last.before.config_cache.route).route_id)

\* with no set-route action since the last successful sync, the recorded
\* route is the route of the config
PricedOnSyncedRoute ==
    (PricedTap /\ last.before.route_state.route_id
                     = Unwrap(last.before.config_cache.route).route_id)
        => Unwrap(last.decision.event).route_id
              = Unwrap(last.before.config_cache.route).route_id

(* ------------------------------------------------------------------ *)
(* C36                                                                 *)
(* ------------------------------------------------------------------ *)
\* the last tap handled was an accepted single tap or tap-out of a card that
\* parsed (its write-request leaves the card idle), and it is still the tap
\* on display
ChargedTapDisplayed ==
    /\ last.op = "tap"
    /\ Accepted(last.decision)
    /\ IsSome(last.decision.event)
    /\ IsSome(last.decision.write_request)
    /\ Unwrap(last.decision.write_request).card_data.status = CardStatus_as_u8("Idle")
    /\ ParsedCard(last.detected)
    /\ state.last_card_id = last.detected.card_id
    /\ state.last_tap_nonce > 0

\* what the tap's write-request took off the balance read from the card
Deducted ==
    last.detected.card_data.data.balance_cents
        - Unwrap(last.decision.write_request).card_data.balance

\* C36: for every accepted single tap or tap-out, the actual fare exposed in
\* the state (last_fare, in cents) while that tap is the displayed tap is
\* the amount deducted from the card balance in that tap's write-request,
\* also after the card-lookup result for that card has been applied by the
\* network worker.
C36_DisplayedFareIsDeducted ==
    (ChargedTapDisplayed /\ IsSome(state.last_fare))
        => Unwrap(state.last_fare) = Deducted

\* right after the tap has been handled, before any lookup result is
\* applied, the displayed fare is the deducted one
DisplayedFareIsDeductedAtTap ==
    [][(TapStep /\ last'.op = "tap" /\ Accepted(last'.decision)
          /\ IsSome(last'.decision.event)
          /\ IsSome(last'.decision.write_request)
          /\ Unwrap(last'.decision.write_request).card_data.status
                = CardStatus_as_u8("Idle")
          /\ ParsedCard(last'.detected)
          /\ IsSome(state'.last_fare))
         => Unwrap(state'.last_fare)
               = last'.detected.card_data.data.balance_cents
                    - Unwrap(last'.decision.write_request).card_data.balance]_vars

(* ------------------------------------------------------------------ *)
(* C37                                                                 *)
(* ------------------------------------------------------------------ *)
\* tap i is the last tap of the card of tap j that passed the filter
\* before tap j
LastPassedBefore(i, j) ==
    /\ i < j
    /\ history[i].card_id = history[j].card_id
    /\ history[i].passed
    /\ \A k \in (i + 1)..(j - 1) :
          history[k].card_id = history[j].card_id => ~history[k].passed

\* C37: a tap rejected by the debounce filter does not refresh the card's
\* last-seen time: a tap that arrives more than the window after the card's
\* last tap that passed the filter passes the filter again, however many
\* rejected taps of the card lie between.
C37_PassesAgainAfterWindow ==
    \A i, j \in 1..Len(history) :
        (LastPassedBefore(i, j)
           /\ history[j].now > history[i].now + state.settings.debounce_window_secs)
            => history[j].passed

\* a card taps three times a second apart with a window of one second: the
\* second tap is rejected as too fast, the third passes although it comes
\* within the window of the rejected one
C37_Witness ==
    \E i, m, j \in 1..Len(history) :
        /\ i < m /\ m < j
        /\ LastPassedBefore(i, j)
        /\ history[m].card_id = history[j].card_id
        /\ TooFast(history[m])
        /\ history[j].now <= history[m].now + state.settings.debounce_window_secs
        /\ history[j].now > history[i].now + state.settings.debounce_window_secs
        /\ history[j].passed

(* ------------------------------------------------------------------ *)
(* SpecStale: tap-in-out trips with cards that come in-trip from       *)
(* elsewhere or whose pending trip has expired                         *)
(* ------------------------------------------------------------------ *)
\* a card whose on-card status is in-trip, entered at station 3
InTripCard(card_id, balance) ==
    [card_id |-> card_id,
     card_data |-> [kind |-> "ok",
                    data |-> [CardRecord(card_id, balance, "InTrip")
                                 EXCEPT !.entry_station_id = Some(3)]]]

StaleCards == {IdleCard("0A0B0C01", 1000), InTripCard("0A0B0C01", 1000),
               InTripCard("0A0B0C02", 1000)}

StaleTap ==
    /\ state.last_tap_nonce < TripMaxTaps
    /\ \E card \in StaleCards :
          LET detected == [card_id |-> card.card_id, tap_time |-> clock,
                           card_data |-> card.card_data]
          IN \E r \in {handle_card(state, detected, clock, NowMs)} :
             /\ state' = r.self
             /\ last' = [op |-> "tap", detected |-> detected, now |-> clock,
                         decision |-> r.ret, before |-> state]
    /\ UNCHANGED <<clock, history, debounce, upload_rx, buffer, card_rx, cmd_rx, net_cmd_rx, proc, net, lock, reader>>

StaleNext ==
    \/ TripTick
    \/ TripStepStation
    \/ StaleTap

SpecStale == TripInit /\ [][StaleNext]_vars

(* ------------------------------------------------------------------ *)
(* C38                                                                 *)
(* ------------------------------------------------------------------ *)
\* before the last tap the active-trip cache held an unexpired pending trip
\* of the tapped card
PendingTrip ==
    \E e \in Range(last.before.active_trips.entries) :
        /\ e.card_id = last.detected.card_id
        /\ last.now - e.last_seen <= last.before.active_trips.ttl_secs

\* the card of the last tap says in-trip with an entry station
CardSaysInTrip ==
    /\ last.detected.card_data.data.status = "InTrip"
    /\ IsSome(last.detected.card_data.data.entry_station_id)

\* C38: in tap-in-out mode the tap type is decided only by the active-trip
\* cache, not by the card: a tap is a tap-out exactly when the cache holds an
\* unexpired pending trip for the card-id, and a card that says in-trip with
\* an entry station but has no such trip is processed as a new tap-in, its
\* entry station overwritten and nothing charged for the open trip.
C38_TapTypeFromTripCache ==
    (last.op = "tap" /\ Accepted(last.decision) /\ IsSome(last.decision.event))
        => /\ Unwrap(last.decision.event).tap_type = "TapOut" <=> PendingTrip
           /\ (~PendingTrip /\ CardSaysInTrip)
                 => /\ Unwrap(last.decision.event).tap_type = "TapIn"
                    /\ Unwrap(last.decision.write_request).card_data.status
                          = CardStatus_as_u8("InTrip")
                    /\ Unwrap(last.decision.write_request).card_data.entry_station
                          = last.before.route_state.station_id
                    /\ Unwrap(last.decision.write_request).card_data.balance
                          = last.detected.card_data.data.balance_cents

\* a card that says it entered at station 3 is tapped at another station
\* after its pending trip has expired: a tap-in, entry station overwritten
C38_Witness ==
    /\ last.op = "tap"
    /\ Accepted(last.decision)
    /\ CardSaysInTrip
    /\ ~PendingTrip
    /\ \E e \in Range(last.before.active_trips.entries) :
          e.card_id = last.detected.card_id
    /\ Unwrap(last.decision.event).tap_type = "TapIn"
    /\ last.before.route_state.station_id # 3
    /\ Unwrap(last.decision.write_request).card_data.entry_station
          = last.before.route_state.station_id

\* ---------------------------------------------------------------------
\* The age of the blacklist: taps, the periodic configuration sync with
\* either fetch failing or succeeding, and a clock that passes the TTL.

\* BlacklistCache::is_expired; ttl_secs is settings.blacklist_ttl_secs
BlacklistCache_is_expired(b, now) == SatSub(now, b.fetched_at) > BlacklistTtlSecs

AgeInit ==
    /\ state = update_blacklist(
                   update_route_config(GatewayState_bootstrap(ScaledSettings),
                                       ConfigInOut, 0),
                   <<"0A0B0C03", "0A0B0C02">>, 0)
    /\ Boot(ScaledSettings)

AgeCards == {IdleCard("0A0B0C01", 1000), IdleCard("0A0B0C02", 1000)}

\* the lists the backend may answer a blacklist fetch with
AgeFetched == {<<>>, <<"0A0B0C02">>, <<"0A0B0C03", "0A0B0C02">>}

AgeTap ==
    /\ state.last_tap_nonce < AgeMaxTaps
    /\ \E card \in AgeCards :
          LET detected == [card_id |-> card.card_id, tap_time |-> clock,
                           card_data |-> card.card_data]
          IN \E r \in {handle_card(state, detected, clock, NowMs)} :
             /\ state' = r.self
             /\ last' = [op |-> "tap", detected |-> detected, now |-> clock,
                         decision |-> r.ret, before |-> state]
    /\ UNCHANGED <<clock, history, debounce, upload_rx, buffer, card_rx, cmd_rx, net_cmd_rx, proc, net, lock, reader>>

\* sync_config: the route fetch, then the blacklist fetch, then the status
AgeSync ==
    /\ \E route_ok \in BOOLEAN, fetched \in {None} \cup {Some(c) : c \in AgeFetched} :
          \E s1 \in {IF route_ok THEN update_route_config(state, ConfigInOut, clock)
                     ELSE state} :
          \E s2 \in {IF IsSome(fetched) THEN update_blacklist(s1, Unwrap(fetched), clock)
                     ELSE s1} :
             /\ state' = update_backend_status(s2, route_ok \/ IsSome(fetched))
             /\ last' = [op |-> "sync_config", ok |-> route_ok \/ IsSome(fetched),
                         fetched |-> fetched, before |-> state]
    /\ UNCHANGED <<clock, history, debounce, upload_rx, buffer, card_rx, cmd_rx, net_cmd_rx, proc, net, lock, reader>>

AgeTick ==
    /\ clock < AgeMaxClock
    /\ clock' = clock + 1
    /\ UNCHANGED <<state, last, history, debounce, upload_rx, buffer, card_rx, cmd_rx, net_cmd_rx, proc, net, lock, reader>>

AgeNext == AgeTick \/ AgeTap \/ AgeSync

SpecAge == AgeInit /\ [][AgeNext]_vars

ListedBefore(card_id) == card_id \in Range(last.before.blacklist_cache.cards)

\* C39: a tap of a card-id in the blacklist cache is rejected whatever the
\* age of the cache, as blocked when the debounce filter lets it through;
\* and the list only changes when a blacklist fetch succeeds, to the list
\* fetched, so a listed card stays listed until a fetched list leaves it out.
C39_BlacklistHonouredAtAnyAge ==
    /\ last.op = "tap" /\ ListedBefore(last.detected.card_id)
       => /\ Rejected(last.decision)
          /\ TapDebounce_allow(last.before.debounce, last.detected.card_id, last.now).ret
                => state.last_passenger_message = "card_blocked"
          /\ state.blacklist_cache = last.before.blacklist_cache
    /\ last.op = "sync_config"
       => state.blacklist_cache.cards
             = IF IsSome(last.fetched) THEN Unwrap(last.fetched)
               ELSE last.before.blacklist_cache.cards

\* a listed card rejected as blocked on a cache older than the TTL
C39_Witness ==
    /\ last.op = "tap"
    /\ last.detected.card_id = "0A0B0C02"
    /\ ListedBefore("0A0B0C02")
    /\ BlacklistCache_is_expired(last.before.blacklist_cache, last.now)
    /\ last.before.blacklist_cache.fetched_at = 0
    /\ Rejected(last.decision)
    /\ state.last_passenger_message = "card_blocked"

\* ---------------------------------------------------------------------
\* Record ids: taps of three cards at any station and second, each tap
\* remembered with the sequence number before and after it.

IdCards == TripCards \cup {IdleCard("0A0B0C03", 1000)}

IdTap ==
    /\ state.last_tap_nonce < IdMaxTaps
    /\ \E card \in IdCards :
          LET detected == [card_id |-> card.card_id, tap_time |-> clock,
                           card_data |-> card.card_data]
          IN \E r \in {handle_card(state, detected, clock, NowMs)} :
             /\ state' = r.self
             /\ last' = [op |-> "tap", detected |-> detected, now |-> clock,
                         decision |-> r.ret]
             /\ history' = Append(history,
                               [card_id |-> card.card_id, now |-> clock,
                                decision |-> r.ret,
                                message |-> r.self.last_passenger_message,
                                seq_before |-> state.record_seq,
                                seq_after |-> r.self.record_seq])
    /\ UNCHANGED <<clock, debounce, upload_rx, buffer, card_rx, cmd_rx, net_cmd_rx, proc, net, lock, reader>>

IdNext == TripTick \/ TripStepStation \/ IdTap

SpecIds == TripInit /\ [][IdNext]_vars

DigitChars == <<"0", "1", "2", "3", "4", "5", "6", "7", "8", "9">>

RECURSIVE Digits(_)
\* Display of an unsigned integer: its decimal digits
Digits(n) ==
    IF n < 10 THEN <<DigitChars[n + 1]>>
    ELSE Digits(n \div 10) \o <<DigitChars[(n % 10) + 1]>>

\* format!("{}-{}-{}", gateway_id, now, seq), as a sequence of characters
\* after the gateway id
RecordIdText(record_id) ==
    <<record_id[1], "-">> \o Digits(record_id[2]) \o <<"-">> \o Digits(record_id[3])

\* the tap built an event: next_record_id was called
Allocated(h) == h.seq_after # h.seq_before

\* the id of the event a tap built: the one its upload record carries, or
\* for an event dropped by a rejection the one next_record_id returned
EventId(h) ==
    IF IsSome(h.decision.upload_record)
    THEN Unwrap(h.decision.upload_record).record_id
    ELSE <<state.settings.gateway_id, h.now, h.seq_before>>

\* C40: no two events built by handle_card_detected carry the same record
\* id, taps within one second and taps rejected for insufficient balance
\* included; an upload record carries the sequence number read before its
\* tap, every allocation advances the number by exactly one, and nothing
\* else changes it.
C40_RecordIdsUnique ==
    /\ \A i, j \in 1..Len(history) :
          (i < j /\ Allocated(history[i]) /\ Allocated(history[j]))
             => RecordIdText(EventId(history[i])) # RecordIdText(EventId(history[j]))
    /\ \A i \in 1..Len(history) :
          LET h == history[i]
          IN /\ h.seq_after \in {h.seq_before, h.seq_before + 1}
             /\ h.seq_before = (IF i = 1 THEN 0 ELSE history[i - 1].seq_after)
             /\ IsSome(h.decision.upload_record)
                   => /\ Allocated(h)
                      /\ Unwrap(h.decision.upload_record).record_id[3] = h.seq_before
             /\ h.message = "insufficient_balance" => Allocated(h)
    /\ state.record_seq = (IF history = <<>> THEN 0
                           ELSE history[Len(history)].seq_after)

\* three events built, the second one dropped by a rejection for
\* insufficient balance after its id was allocated, the third one built
\* within the same second and uploaded with the next number
C40_Witness ==
    /\ Len(history) = 3
    /\ history[2].now = history[3].now
    /\ Accepted(history[1].decision)
    /\ history[2].message = "insufficient_balance"
    /\ Rejected(history[2].decision)
    /\ Allocated(history[2])
    /\ IsSome(history[3].decision.upload_record)
    /\ state.record_seq = 3
====
